---- MODULE Spec2Model ----
(***************************************************************************)
(* A model of Batis: a Host owns one Memory (an ordered sequence of state, *)
(* effect and memo cells addressed by a pointer), drives an agent through  *)
(* the convergence loop of #render and reports value / reset / error       *)
(* events to one listener.                                                 *)
(*                                                                         *)
(* Two versions of the Host are in the repository: src/src/index.ts (the   *)
(* "agent" API: value events with async / intermediate flags, a setter     *)
(* that tests host !== activeHost) and src/unnamed/part_000 (the "hook"    *)
(* API: one rendering event with result / interimResults, a setter that    *)
(* tests the global rendering flag).  The variable variant selects one.    *)
(*                                                                         *)
(* The Memory class (./memory), areDependenciesEqual and isFunction are    *)
(* imported by both versions but their files are not part of the sources;  *)
(* they are modelled from sections 4.1 and 6 of the specification.         *)
(*                                                                         *)
(* Every handler (render, reset, a microtask running #renderAsync, a timer *)
(* callback) is one action.  Inside a handler the state is threaded        *)
(* through the operators below as a record w ("world"):                    *)
(*   mem       host -> [cells, pointer]        the Memory of each Host     *)
(*   args      host -> salutation              #args                       *)
(*   active    the module-level activeHost ("none" = undefined)            *)
(*   rendering the module-level rendering flag of the hook version         *)
(*   micro     FIFO of hosts whose #renderAsync was queued as a microtask  *)
(*   timers    pending setTimeout callbacks                                *)
(*   setPeer   the setter an agent published for code of another Host      *)
(*   out       host -> events handed to the listener by this handler       *)
(*   log       internal steps of this handler, in order                    *)
(*   exc       the exception in flight ("none" when there is none)         *)
(*   fuel      agent invocations this handler may still make               *)
(*   hung      the handler exceeded MaxPasses (it would loop forever)      *)
(***************************************************************************)
EXTENDS Naturals, Sequences, FiniteSets, TLC

VARIABLES variant, agent, mem, args, activeHost, rendering, micro, timers,
          setPeer, steps, hung, last, history

vars == <<variant, agent, mem, args, activeHost, rendering, micro, timers,
          setPeer, steps, hung, last, history>>

(***************************************************************************)
(* Bounds of the model.                                                    *)
(***************************************************************************)
\* render / reset calls and timer callbacks in one behaviour
MaxSteps == 4

\* agent invocations one render procedure may make before it counts as hung
MaxPasses == 4

\* render / reset calls and timer callbacks in one behaviour of the README run
ReadmeSteps == 7

\* calls and timer callbacks in one behaviour with calls of primitives by the caller
MisuseSteps == 3

\* calls and timer callbacks in one behaviour under fair microtasks
LiveSteps == 3

\* calls and timer callbacks in one behaviour of two Hosts
PairSteps == 3

(***************************************************************************)
(* Values.                                                                 *)
(***************************************************************************)
None == "none"

NoCell == [type |-> "none"]

NoDispose == [kind |-> "none", timer |-> 0]

NoDeps == [defined |-> FALSE, list |-> <<>>]

Deps(list) == [defined |-> TRUE, list |-> list]

\* a state change: a plain value, or the function prev => prev + suffix
SetTo(v) == [fn |-> FALSE, v |-> v]

Suffix(s) == [fn |-> TRUE, v |-> s]

EmptyMemory == [cells |-> <<>>, pointer |-> 0]

LogEntry(k, h, i, v, a) == [k |-> k, h |-> h, i |-> i, v |-> v, a |-> a]

Note(w, k, h, i, v) == [w EXCEPT !.log = Append(@, LogEntry(k, h, i, v, w.active))]

Throw(w, h, who, error) == [Note(w, "throw", h, 0, who) EXCEPT !.exc = error]

(***************************************************************************)
(* External collaborators (./is-function, ./are-dependencies-equal).       *)
(***************************************************************************)
isFunction(x) == x.fn

RECURSIVE SameElements(_, _, _)
SameElements(a, b, i) ==
    IF i > Len(a) THEN TRUE
    ELSE IF a[i] # b[i] THEN FALSE
    ELSE SameElements(a, b, i + 1)

areDependenciesEqual(prev, next) ==
    /\ prev.defined
    /\ next.defined
    /\ Len(prev.list) = Len(next.list)
    /\ SameElements(prev.list, next.list, 1)

(***************************************************************************)
(* Memory (./memory), after section 4.1 of the specification.              *)
(***************************************************************************)
\* read: the cell at the pointer, or NoCell when there is none yet
read(w, h) ==
    LET m == w.mem[h]
    IN  IF m.pointer < Len(m.cells) THEN m.cells[m.pointer + 1] ELSE NoCell

\* write: store a new cell at the pointer (the tail of the sequence)
write(w, h, cell) ==
    LET m == w.mem[h]
    IN  [w EXCEPT !.mem[h].cells =
            IF m.pointer < Len(m.cells)
            THEN [m.cells EXCEPT ![m.pointer + 1] = cell]
            ELSE Append(m.cells, cell)]

movePointer(w, h) == [w EXCEPT !.mem[h].pointer = @ + 1]

\* reset(): rewind the pointer, keep the cells
resetSoft(w, h) == [w EXCEPT !.mem[h].pointer = 0]

\* one queued state change applied to a state
ApplyChange(state, change) ==
    IF isFunction(change) THEN state \o change.v ELSE change.v

RECURSIVE FoldChanges(_, _, _)
FoldChanges(state, changes, i) ==
    IF i > Len(changes) THEN state
    ELSE FoldChanges(ApplyChange(state, changes[i]), changes, i + 1)

FoldedCell(cell) ==
    IF cell.type = "state"
    THEN [cell EXCEPT !.state = FoldChanges(cell.state, cell.stateChanges, 1),
                      !.stateChanges = <<>>]
    ELSE cell

\* applyStateChanges(): fold every state cell's queue into its state, clear
\* the queue, and report whether any state is different from before
applyStateChanges(w, h) ==
    LET cells  == w.mem[h].cells
        folded == [i \in 1..Len(cells) |-> FoldedCell(cells[i])]
        changed == \E i \in 1..Len(cells) :
                      cells[i].type = "state" /\ folded[i].state # cells[i].state
    IN  [w |-> Note([w EXCEPT !.mem[h].cells = folded], "apply", h, 0,
                    IF changed THEN "changed" ELSE "same"),
         changed |-> changed]

\* the smallest timer id no pending timer and no stored cleanup refers to
UsedTimers(w) ==
    {t.id : t \in w.timers} \cup
    UNION {{w.mem[h].cells[i].dispose.timer :
              i \in {j \in 1..Len(w.mem[h].cells) :
                       w.mem[h].cells[j].type = "effect"}} :
           h \in DOMAIN w.mem}

SmallestFree(used) ==
    CHOOSE n \in 1..(Cardinality(used) + 1) :
        n \notin used /\ \A k \in 1..(n - 1) : k \in used

FreshTimer(w) == SmallestFree(UsedTimers(w))

(***************************************************************************)
(* The setter closure of a state cell.  ref names the captured cell: its   *)
(* host, its position, and whether the cell is still part of the Memory    *)
(* (a hard reset detaches the cells; their closures live on).              *)
(***************************************************************************)
\* a slip: the setter replaces the queue instead of appending to it
EnqueueReplacing(w, ref, change) ==
    IF ref.live
    THEN [w EXCEPT !.mem[ref.h].cells[ref.pos].stateChanges = <<change>>]
    ELSE w

\* a slip: the setter puts the update in front of the queue
EnqueuePrepending(w, ref, change) ==
    IF ref.live
    THEN [w EXCEPT !.mem[ref.h].cells[ref.pos].stateChanges = <<change>> \o @]
    ELSE w

\* a slip: the setter updates the state at once instead of queueing
EnqueueApplying(w, ref, change) ==
    IF ref.live
    THEN [w EXCEPT !.mem[ref.h].cells[ref.pos].state = ApplyChange(@, change)]
    ELSE w

\* memoryCell.stateChanges = [...memoryCell.stateChanges, state]
Enqueue(w, ref, change) ==
    IF ref.live
    THEN [w EXCEPT !.mem[ref.h].cells[ref.pos].stateChanges = Append(@, change)]
    ELSE w

\* the test that guards the microtask: host !== activeHost in index.ts,
\* !rendering in the hook version
SchedulesMicrotask(w, h) ==
    IF variant = "agent" THEN h # w.active ELSE ~w.rendering

\* a slip: the setter queues the update and schedules nothing
ScheduleNever(w, h) == w

\* #renderAsync and #renderAsynchronously are defined with the Hosts below
RECURSIVE renderAsync(_, _)
RECURSIVE hookRenderAsynchronously(_, _)

\* a slip: the setter renders at once instead of scheduling a microtask
ScheduleSynchronously(w, h) ==
    IF SchedulesMicrotask(w, h)
    THEN IF variant = "agent" THEN renderAsync(w, h)
         ELSE hookRenderAsynchronously(w, h)
    ELSE w

\* Promise.resolve().then(() => host.#renderAsync())
Schedule(w, h) ==
    IF SchedulesMicrotask(w, h) THEN [w EXCEPT !.micro = Append(@, h)] ELSE w

setState(w, ref, change) ==
    Schedule(Note(Enqueue(w, ref, change), "set", ref.h, ref.pos, change.v), ref.h)

RECURSIVE setStates(_, _, _, _)
setStates(w, ref, changes, i) ==
    IF i > Len(changes) THEN w
    ELSE setStates(setState(w, ref, changes[i]), ref, changes, i + 1)

\* no setter was published
NoSetter == [h |-> None, pos |-> 0, live |-> FALSE]

\* the other Host of a pair
Peer(h) == CHOOSE p \in DOMAIN agent : p # h

\* setPeer?.(c) for each c of changes: code of Host h calls the setter an
\* agent of another Host published when it was last invoked (none before
\* that; the setter of a discarded cell after a hard reset).  The setter
\* stays bound to the cell its useState call created, wherever that cell is.
PeerSets(w, h, changes) ==
    IF changes = <<>> THEN w
    ELSE IF w.setPeer = NoSetter THEN w
    ELSE setStates(w, w.setPeer, changes, 1)

(***************************************************************************)
(* Host: the static primitives.  h is the active Host (activeHost!).       *)
(***************************************************************************)
\* what useState returns: the state, and the position of the cell the
\* returned setter is bound to
StateResult(w, h) ==
    [w |-> movePointer(w, h),
     state |-> w.mem[h].cells[w.mem[h].pointer + 1].state,
     setter |-> w.mem[h].pointer + 1]

useState(w, h, initialState) ==
    StateResult(IF read(w, h) = NoCell
                THEN write(IF isFunction(initialState)
                           THEN Note(w, "init", h, w.mem[h].pointer + 1,
                                     initialState.v)
                           ELSE w,
                           h,
                           [type |-> "state", state |-> initialState.v,
                            stateChanges |-> <<>>])
                ELSE w,
                h)

\* a slip: a cell that is still outdated keeps the function it has
useEffectKeepingOutdated(w, h, effect, dependencies) ==
    movePointer(
        IF read(w, h) = NoCell
        THEN write(w, h,
                   [type |-> "effect", outdated |-> TRUE, effect |-> effect,
                    dependencies |-> dependencies, dispose |-> NoDispose])
        ELSE IF ~areDependenciesEqual(read(w, h).dependencies, dependencies)
        THEN [w EXCEPT !.mem[h].cells[w.mem[h].pointer + 1].outdated = TRUE,
                       !.mem[h].cells[w.mem[h].pointer + 1].effect = effect,
                       !.mem[h].cells[w.mem[h].pointer + 1].dependencies =
                           dependencies]
        ELSE w,
        h)

useEffect(w, h, effect, dependencies) ==
    movePointer(
        IF read(w, h) = NoCell
        THEN write(w, h,
                   [type |-> "effect", outdated |-> TRUE, effect |-> effect,
                    dependencies |-> dependencies, dispose |-> NoDispose])
        ELSE IF \/ ~areDependenciesEqual(read(w, h).dependencies, dependencies)
                \/ read(w, h).outdated
        THEN [w EXCEPT !.mem[h].cells[w.mem[h].pointer + 1].outdated = TRUE,
                       !.mem[h].cells[w.mem[h].pointer + 1].effect = effect,
                       !.mem[h].cells[w.mem[h].pointer + 1].dependencies =
                           dependencies]
        ELSE w,
        h)

MemoResult(w, h) ==
    [w |-> movePointer(w, h),
     value |-> w.mem[h].cells[w.mem[h].pointer + 1].value]

\* a slip: the producer is invoked on every call
useMemoAlways(w, h, createValue, dependencies) ==
    MemoResult(
        IF read(w, h) = NoCell
        THEN write(Note(w, "produce", h, w.mem[h].pointer + 1, createValue), h,
                   [type |-> "memo", value |-> createValue,
                    dependencies |-> dependencies])
        ELSE [Note(w, "produce", h, w.mem[h].pointer + 1, createValue)
                 EXCEPT !.mem[h].cells[w.mem[h].pointer + 1].value = createValue,
                        !.mem[h].cells[w.mem[h].pointer + 1].dependencies =
                            dependencies],
        h)

\* useMemo: createValue is given as the value the producer would return
useMemo(w, h, createValue, dependencies) ==
    MemoResult(
        IF read(w, h) = NoCell
        THEN write(Note(w, "produce", h, w.mem[h].pointer + 1, createValue), h,
                   [type |-> "memo", value |-> createValue,
                    dependencies |-> dependencies])
        ELSE IF ~areDependenciesEqual(read(w, h).dependencies, dependencies)
        THEN [Note(w, "produce", h, w.mem[h].pointer + 1, createValue)
                 EXCEPT !.mem[h].cells[w.mem[h].pointer + 1].value = createValue,
                        !.mem[h].cells[w.mem[h].pointer + 1].dependencies =
                            dependencies]
        ELSE w,
        h)

(***************************************************************************)
(* A primitive called through the module-level activeHost.  Outside an     *)
(* agent invocation activeHost is undefined: index.ts dereferences it      *)
(* (activeHost!, then host.#memory: a TypeError), the hook version throws  *)
(* in getActiveHost.                                                       *)
(***************************************************************************)
Primitives == {"useState", "useEffect", "useMemo", "useCallback", "useRef"}

\* const host = activeHost!;  host.#memory...   /  getActiveHost()
getActiveHost(w) ==
    IF w.active = None
    THEN [w |-> Throw(w, None, "misuse", "misuse error"), host |-> None]
    ELSE [w |-> w, host |-> w.active]

\* the body of the primitive p once the Host is known; useCallback and useRef
\* are Host.useMemo(() => ..., dependencies)
CallPrimitive(g, p) ==
    IF g.w.exc # None THEN g.w
    ELSE CASE p = "useState"  -> useState(g.w, g.host, SetTo("John Doe")).w
           [] p = "useEffect" ->
                  useEffect(g.w, g.host, [idx |-> 1, name |-> None, setter |-> 1],
                            NoDeps)
           [] OTHER           -> useMemo(g.w, g.host, p, Deps(<<>>)).w

UsePrimitive(w, p) == CallPrimitive(getActiveHost(w), p)

(***************************************************************************)
(* Effects and cleanups of the agents (see Agents below): the effect of    *)
(* slot idx, created by an agent invocation that saw name.                 *)
(***************************************************************************)
\* a cleanup: "noop" does nothing, "cancel" clears the timer its effect
\* started, "throw" throws
DisposeBody(w, h, d) ==
    IF d.kind = "cancel"
    THEN [w EXCEPT !.timers = {t \in @ : t.id # d.timer}]
    ELSE IF d.kind = "throw"
    THEN Throw(w, h, "cleanup", "cleanup error")
    ELSE w

RunDispose(w, h, i, d) == DisposeBody(Note(w, "cleanup", h, i, d.kind), h, d)

\* the cleanup an effect returns (none, when the effect returns nothing)
Cleanup(e, id) ==
    IF e.cleanup = "none" THEN NoDispose ELSE [kind |-> e.cleanup, timer |-> id]

\* const id = setTimeout(() => e.timer.forEach(setName))
StartTimer(w, h, e, closure, id) ==
    [w |-> [w EXCEPT !.timers = @ \cup
                {[id |-> id, h |-> h, pos |-> closure.setter, live |-> TRUE,
                  updates |-> e.timer]}],
     dispose |-> Cleanup(e, id)]

EffectTimer(w, h, e, closure) ==
    IF e.timer = <<>>
    THEN [w |-> w, dispose |-> Cleanup(e, 0)]
    ELSE StartTimer(w, h, e, closure, FreshTimer(w))

EffectBody(w, h, e, closure) ==
    IF e.throwOn = closure.name
    THEN [w |-> Throw(w, h, "effect", "effect error"), dispose |-> NoDispose]
    ELSE IF e.uses # None
    THEN [w |-> UsePrimitive(w, e.uses), dispose |-> NoDispose]
    ELSE EffectTimer(PeerSets(IF e.setWhen \in {closure.name, "always"}
                              THEN setStates(w, [h |-> h, pos |-> closure.setter,
                                                 live |-> TRUE], e.sets, 1)
                              ELSE w,
                              h, e.peerSets),
                     h, e, closure)

\* an effect function; returns the world and the cleanup it returned
RunEffect(w, h, i, closure) ==
    EffectBody(Note(w, "effect", h, i, closure.name), h,
               agent[h].effects[closure.idx], closure)

\* a cleanup is owned by its cell until invoked, then discarded (an exception
\* thrown by the cleanup leaves it where it is)
DiscardDispose(w, h, i) ==
    IF w.exc # None THEN w ELSE [w EXCEPT !.mem[h].cells[i].dispose = NoDispose]

\* triggerEffects(): in slot order, for every outdated effect cell: run and
\* discard the previous cleanup, run the effect, store the returned cleanup,
\* clear the flag.  An exception leaves the cells as they are at that moment.
StoreDispose(r, h, i) ==
    IF r.w.exc # None THEN r.w
    ELSE [r.w EXCEPT !.mem[h].cells[i].dispose = r.dispose,
                     !.mem[h].cells[i].outdated = FALSE]

AfterDispose(w, h, i, cell) ==
    IF w.exc # None THEN [w |-> w, dispose |-> NoDispose]
    ELSE RunEffect(w, h, i, cell.effect)

TriggerEffect(w, h, i, cell) ==
    StoreDispose(AfterDispose(IF cell.dispose # NoDispose
                              THEN DiscardDispose(RunDispose(w, h, i, cell.dispose),
                                                  h, i)
                              ELSE w,
                              h, i, cell),
                 h, i)

RECURSIVE triggerEffectsFrom(_, _, _)
triggerEffectsFrom(w, h, i) ==
    IF w.exc # None \/ i > Len(w.mem[h].cells) THEN w
    ELSE IF w.mem[h].cells[i].type # "effect" \/ ~w.mem[h].cells[i].outdated
    THEN triggerEffectsFrom(w, h, i + 1)
    ELSE triggerEffectsFrom(TriggerEffect(w, h, i, w.mem[h].cells[i]), h, i + 1)

triggerEffects(w, h) == triggerEffectsFrom(w, h, 1)

\* reset(true): in slot order, invoke and discard every cleanup; then discard
\* the cells and rewind the pointer.  A throwing cleanup is not caught here:
\* the cells after it keep their cleanups and the Memory keeps its cells.
DiscardCells(w, h) ==
    [w EXCEPT !.mem[h] = EmptyMemory,
              !.timers = {IF t.h = h THEN [t EXCEPT !.live = FALSE] ELSE t : t \in @},
              !.setPeer = IF @.h = h THEN [@ EXCEPT !.live = FALSE] ELSE @]

RECURSIVE teardownFrom(_, _, _)
teardownFrom(w, h, i) ==
    IF w.exc # None THEN w
    ELSE IF i > Len(w.mem[h].cells) THEN DiscardCells(w, h)
    ELSE IF w.mem[h].cells[i].type # "effect"
            \/ w.mem[h].cells[i].dispose = NoDispose
    THEN teardownFrom(w, h, i + 1)
    ELSE teardownFrom(DiscardDispose(RunDispose(w, h, i, w.mem[h].cells[i].dispose),
                                     h, i),
                      h, i + 1)

resetHard(w, h) == teardownFrom(w, h, 1)

(***************************************************************************)
(* The agents.  agent[h] describes the function given to the Host:         *)
(*                                                                         *)
(*   function agent(salutation) {                                          *)
(*     const [name, setName] = useState(init);                             *)
(*     if (publishes) setPeer = setName;   // for code of another Host     *)
(*     if (name === bodyWhen) for (const c of bodySets) setName(c);        *)
(*     for (const c of peerSets) setPeer?.(c);   // the other Host's setter *)
(*     for each e of effects:                                              *)
(*       useEffect(() => {                                                 *)
(*         if (name === e.throwOn) throw 'effect error';                   *)
(*         if (e.uses) return void Host[e.uses](...);                      *)
(*         if (e.setWhen === 'always' || name === e.setWhen)               *)
(*           for (const c of e.sets) setName(c);                           *)
(*         for (const c of e.peerSets) setPeer?.(c);                       *)
(*         const id = e.timer.length                                       *)
(*           ? setTimeout(() => e.timer.forEach(setName)) : undefined;     *)
(*         return cleanup(e.cleanup, id);                                  *)
(*       }, e.deps);         // [name] | [] | undefined                    *)
(*     const value = useMemo(() => plain ? `${salutation} ${name}`         *)
(*                                       : `${salutation}, ${name}!`,      *)
(*                           memoDeps);                                    *)
(*     if (name === throwOn || salutation === throwOn) throw 'agent error';*)
(*     return value;                                                       *)
(*   }                                                                     *)
(***************************************************************************)
EffectDeps(e, name) ==
    CASE e.deps = "name"  -> Deps(<<name>>)
      [] e.deps = "empty" -> Deps(<<>>)
      [] OTHER            -> NoDeps

MemoDeps(a, salutation, name) ==
    IF a.memoDeps = "both" THEN Deps(<<salutation, name>>) ELSE Deps(<<salutation>>)

Greeting(salutation, name) == salutation \o ", " \o name \o "!"

\* `${salutation} ${name}` of the hook version's README
PlainGreeting(salutation, name) == salutation \o " " \o name

\* the value the agent a computes
GreetingOf(a, salutation, name) ==
    IF a.plain THEN PlainGreeting(salutation, name) ELSE Greeting(salutation, name)

\* setPeer = setName
Publish(s, h) ==
    IF agent[h].publishes
    THEN [s EXCEPT !.w.setPeer = [h |-> h, pos |-> s.setter, live |-> TRUE]]
    ELSE s

RECURSIVE useEffects(_, _, _, _, _)
useEffects(w, h, name, setter, i) ==
    IF i > Len(agent[h].effects) THEN w
    ELSE useEffects(useEffect(w, h,
                              [idx |-> i, name |-> name, setter |-> setter],
                              EffectDeps(agent[h].effects[i], name)),
                    h, name, setter, i + 1)

BodySets(w, h, s) ==
    PeerSets(IF s.state = agent[h].bodyWhen
             THEN setStates(w, [h |-> h, pos |-> s.setter, live |-> TRUE],
                            agent[h].bodySets, 1)
             ELSE w,
             h, agent[h].peerSets)

AfterMemo(m, h, salutation, name) ==
    IF agent[h].throwOn \in {name, salutation}
    THEN [w |-> Throw(m.w, h, "agent", "agent error"), value |-> None]
    ELSE [w |-> Note(m.w, "return", h, 0, m.value), value |-> m.value]

AfterState(s, h, salutation) ==
    AfterMemo(useMemo(useEffects(BodySets(Note(s.w, "observe", h, s.setter, s.state),
                                          h, s),
                                 h, s.state, s.setter, 1),
                      h, GreetingOf(agent[h], salutation, s.state),
                      MemoDeps(agent[h], salutation, s.state)),
              h, salutation, s.state)

AgentBody(w, h, salutation) ==
    AfterState(Publish(useState(Note(w, "invoke", h, 0, salutation), h,
                                agent[h].init),
                       h),
               h, salutation)

(***************************************************************************)
(* Events and the listener.                                                *)
(***************************************************************************)
NoEvent == [type |-> "none"]

ValueEvent(value, async, intermediate) ==
    [type |-> "value", value |-> value, async |-> async,
     intermediate |-> intermediate]

ResetEvent == [type |-> "reset"]

ErrorEvent(error, async) == [type |-> "error", error |-> error, async |-> async]

\* the hook version's events (createRenderingEvent, createErrorEvent)
RenderingEvent(result, interimResults) ==
    [type |-> "rendering", result |-> result, interimResults |-> interimResults]

HookErrorEvent(reason) == [type |-> "error", reason |-> reason]

\* this.#listener(event)
Emit(w, h, event) ==
    [Note(w, "emit", h, 0, event.type) EXCEPT !.out[h] = Append(@, event)]

\* a statement that runs unless an exception is in flight: listener(event)
EmitUnlessThrown(w, h, event) == IF w.exc # None THEN w ELSE Emit(w, h, event)

(***************************************************************************)
(* Host of src/src/index.ts.                                               *)
(***************************************************************************)
\* a slip: activeHost is cleared after the call, without a finally block
DeactivateOnReturn(r) ==
    IF r.w.exc # None THEN r
    ELSE [w |-> [r.w EXCEPT !.active = None], value |-> r.value]

\* finally { activeHost = undefined }
Deactivate(r) == [w |-> [r.w EXCEPT !.active = None], value |-> r.value]

\* try { activeHost = this; value = this.#agent(...this.#args) } finally ...
InvokeAgent(w, h) ==
    Deactivate(AgentBody([w EXCEPT !.active = h, !.fuel = @ - 1], h, w.args[h]))

\* a slip: the superseded value is reported with intermediate: false
ReportIntermediateAsFinal(w, h, valueEvent) ==
    IF valueEvent # NoEvent
    THEN Emit(w, h, ValueEvent(valueEvent.value, valueEvent.async, FALSE))
    ELSE w

\* if (valueEvent) this.#listener({...valueEvent, intermediate: true})
ReportIntermediate(w, h, valueEvent) ==
    IF valueEvent # NoEvent
    THEN Emit(w, h, ValueEvent(valueEvent.value, valueEvent.async, TRUE))
    ELSE w

\* #render: renderLoop is the top of the inner loop, where both loops
\* continue; the operators after it are the statements that follow
RECURSIVE renderLoop(_, _, _, _)

\* } while (this.#memory.applyStateChanges());  (outer)  listener(final)
AfterOuter(a, h, async, valueEvent) ==
    IF a.changed THEN renderLoop(a.w, h, async, valueEvent)
    ELSE Emit(a.w, h, ValueEvent(valueEvent.value, valueEvent.async, FALSE))

AfterEffects(w, h, async, valueEvent) ==
    IF w.exc # None THEN w
    ELSE AfterOuter(applyStateChanges(w, h), h, async, valueEvent)

\* a slip: the effects run after every invocation, converged or not
AfterInnerEager(a, h, async, valueEvent) ==
    IF a.changed
    THEN renderLoop(triggerEffects(a.w, h), h, async, valueEvent)
    ELSE AfterEffects(triggerEffects(a.w, h), h, async, valueEvent)

\* } while (this.#memory.applyStateChanges());  (inner)  triggerEffects()
AfterInner(a, h, async, valueEvent) ==
    IF a.changed THEN renderLoop(a.w, h, async, valueEvent)
    ELSE AfterEffects(triggerEffects(a.w, h), h, async, valueEvent)

\* valueEvent = {type: 'value', value, async};  this.#memory.reset()
AfterInvoke(r, h, async) ==
    IF r.w.exc # None THEN r.w
    ELSE AfterInner(applyStateChanges(resetSoft(r.w, h), h), h, async,
                    [type |-> "value", value |-> r.value, async |-> async])

renderLoop(w, h, async, valueEvent) ==
    IF w.fuel = 0 THEN [w EXCEPT !.hung = TRUE]
    ELSE AfterInvoke(InvokeAgent(ReportIntermediate(w, h, valueEvent), h), h, async)

renderPrivate(w, h, async) == renderLoop(w, h, async, NoEvent)

\* a slip: the catch block reports the error but keeps the Memory
CatchErrorKeepingMemory(w, h, async) ==
    IF w.hung \/ w.exc = None THEN w
    ELSE Emit([w EXCEPT !.exc = None], h, ErrorEvent(w.exc, async))

\* catch (error) { this.#memory.reset(true); this.#listener({type: 'error', ...}) }
CatchError(w, h, async) ==
    IF w.hung \/ w.exc = None THEN w
    ELSE EmitUnlessThrown(resetHard([w EXCEPT !.exc = None], h), h,
                          ErrorEvent(w.exc, async))

\* a slip: render applies the queued updates before it invokes the agent
renderApplyingFirst(w, h, a) ==
    CatchError(renderPrivate(applyStateChanges([w EXCEPT !.args[h] = a], h).w,
                             h, FALSE),
               h, FALSE)

render(w, h, a) ==
    CatchError(renderPrivate([w EXCEPT !.args[h] = a], h, FALSE), h, FALSE)

\* a slip: reset() emits the event but keeps the Memory
resetKeepingMemory(w, h) == Emit(w, h, ResetEvent)

reset(w, h) == EmitUnlessThrown(resetHard(w, h), h, ResetEvent)

\* a slip: the microtask's render reports async: false
RenderIfChangedSync(a, h) == IF a.changed THEN renderPrivate(a.w, h, FALSE) ELSE a.w

\* a slip: the microtask renders whether or not a state changed
RenderAlways(a, h) == renderPrivate(a.w, h, TRUE)

\* if (this.#memory.applyStateChanges()) this.#render(true)
RenderIfChanged(a, h) == IF a.changed THEN renderPrivate(a.w, h, TRUE) ELSE a.w

renderAsync(w, h) == CatchError(RenderIfChanged(applyStateChanges(w, h), h), h, TRUE)

(***************************************************************************)
(* Host of src/unnamed/part_000 (the hook version).                        *)
(***************************************************************************)
RECURSIVE hookRenderLoop(_, _, _)

\* eventListener(createRenderingEvent(results[0], ...results.slice(1)))
hookAfterOuter(a, h, results) ==
    IF a.changed THEN hookRenderLoop(a.w, h, results)
    ELSE Emit(a.w, h, RenderingEvent(results[1], Tail(results)))

hookAfterEffects(w, h, results) ==
    IF w.exc # None THEN w
    ELSE hookAfterOuter(applyStateChanges(w, h), h, results)

hookAfterInner(a, h, results) ==
    IF a.changed THEN hookRenderLoop(a.w, h, results)
    ELSE hookAfterEffects(triggerEffects(a.w, h), h, results)

\* a slip: results.push(result) instead of results.unshift(result)
hookAfterInvokePush(r, h, results) ==
    IF r.w.exc # None THEN r.w
    ELSE hookAfterInner(applyStateChanges(resetSoft(r.w, h), h), h,
                        results \o <<r.value>>)

\* results.unshift(result)
hookAfterInvoke(r, h, results) ==
    IF r.w.exc # None THEN r.w
    ELSE hookAfterInner(applyStateChanges(resetSoft(r.w, h), h), h,
                        <<r.value>> \o results)

hookRenderLoop(w, h, results) ==
    IF w.fuel = 0 THEN [w EXCEPT !.hung = TRUE]
    ELSE hookAfterInvoke(InvokeAgent(w, h), h, results)

\* finally { rendering = false }
hookFinally(w) == IF w.hung THEN w ELSE [w EXCEPT !.rendering = FALSE]

\* try { rendering = true; ... } finally { rendering = false }
hookRenderPrivate(w, h) ==
    hookFinally(hookRenderLoop([w EXCEPT !.rendering = TRUE], h, <<>>))

hookCatchError(w, h) ==
    IF w.hung \/ w.exc = None THEN w
    ELSE EmitUnlessThrown(resetHard([w EXCEPT !.exc = None], h), h,
                          HookErrorEvent(w.exc))

hookRender(w, h, a) == hookCatchError(hookRenderPrivate([w EXCEPT !.args[h] = a], h), h)

hookReset(w, h) == EmitUnlessThrown(resetHard(w, h), h, ResetEvent)

hookRenderIfChanged(a, h) == IF a.changed THEN hookRenderPrivate(a.w, h) ELSE a.w

hookRenderAsynchronously(w, h) ==
    hookCatchError(hookRenderIfChanged(applyStateChanges(w, h), h), h)

(***************************************************************************)
(* The agents the Hosts are constructed with.                              *)
(***************************************************************************)
Effect(deps, setWhen, sets, timer, cleanup, throwOn) ==
    [deps |-> deps, setWhen |-> setWhen, sets |-> sets, timer |-> timer,
     cleanup |-> cleanup, throwOn |-> throwOn, uses |-> None, peerSets |-> <<>>]

\* an effect that calls the primitive p (effects run with no Host active)
MisusingEffect(p) ==
    [Effect("empty", None, <<>>, <<>>, "none", None) EXCEPT !.uses = p]

Agent(init, bodyWhen, bodySets, effects, memoDeps, throwOn) ==
    [init |-> init, bodyWhen |-> bodyWhen, bodySets |-> bodySets,
     effects |-> effects, memoDeps |-> memoDeps, throwOn |-> throwOn,
     peerSets |-> <<>>, publishes |-> FALSE, plain |-> FALSE]

\* the effect of the README's useGreeting, with the given cleanup
GreetingEffect(cleanup, throwOn) ==
    Effect("name", "John Doe", <<SetTo("Jane Doe")>>, <<SetTo("Johnny Doe")>>,
           cleanup, throwOn)

\* useGreeting of the README of src/src/index.ts
GreetingAgent ==
    Agent(SetTo("John Doe"), None, <<>>, <<GreetingEffect("cancel", None)>>,
          "both", None)

\* the greeting scenario without a cleanup
ScenarioAgent ==
    Agent(SetTo("John Doe"), None, <<>>, <<GreetingEffect("none", None)>>,
          "both", None)

\* useGreeting of the hook version's README
HookGreetingAgent ==
    [Agent(SetTo("John"), None, <<>>,
           <<Effect("empty", "always", <<SetTo("Jane")>>,
                    <<SetTo("Janie"), Suffix(" and Johnny")>>, "none", None)>>,
           "both", None) EXCEPT !.plain = TRUE]

\* no effect, no update; the state is created by an initializer function
PlainAgent == Agent(Suffix("John Doe"), None, <<>>, <<>>, "both", None)

\* three setter calls in the body of the first invocation
BatchAgent ==
    Agent(SetTo("John Doe"), "John Doe",
          <<SetTo("Jane Doe"), Suffix(" Jr"), Suffix(" II")>>, <<>>, "both", None)

\* the agent throws when it is rendered with "Hi"
ThrowOnArgAgent ==
    Agent(SetTo("John Doe"), None, <<>>, <<GreetingEffect("cancel", None)>>,
          "both", "Hi")

\* the agent throws once the timer's update has been applied
ThrowOnNameAgent ==
    Agent(SetTo("John Doe"), None, <<>>, <<GreetingEffect("noop", None)>>,
          "both", "Johnny Doe")

\* the effect throws when it runs again, after its first cleanup ran
EffectThrowsAgent ==
    Agent(SetTo("John Doe"), None, <<>>, <<GreetingEffect("noop", "Jane Doe")>>,
          "both", None)

\* the effect throws in the render a timer's update started
EffectThrowsLaterAgent ==
    Agent(SetTo("John Doe"), None, <<>>, <<GreetingEffect("none", "Johnny Doe")>>,
          "both", None)

\* an effect without dependency list whose cleanup throws
CleanupThrowsAgent ==
    Agent(SetTo("John Doe"), None, <<>>,
          <<Effect("none", None, <<>>, <<>>, "throw", None)>>, "both", None)

\* two effects; the first one's cleanup throws; the agent throws on "Hi"
TwoEffectsAgent ==
    Agent(SetTo("John Doe"), None, <<>>,
          <<Effect("empty", None, <<>>, <<>>, "throw", None),
            Effect("empty", None, <<>>, <<>>, "noop", None)>>, "both", "Hi")

\* two effects with harmless cleanups; the agent throws on "Hi"
TwoCleanupsAgent ==
    Agent(SetTo("John Doe"), None, <<>>,
          <<Effect("empty", None, <<>>, <<>>, "noop", None),
            Effect("name", None, <<>>, <<SetTo("Jane Doe")>>, "cancel", None)>>,
          "both", "Hi")

\* every run of the effect changes the state: the render never converges
DivergentAgent ==
    Agent(SetTo("John"), None, <<>>,
          <<Effect("none", "always", <<Suffix("!")>>, <<>>, "none", None)>>,
          "both", None)

\* the timer sets the state to the value it already has
SameValueAgent ==
    Agent(SetTo("John Doe"), None, <<>>,
          <<Effect("empty", None, <<>>, <<SetTo("John Doe")>>, "none", None)>>,
          "both", None)

\* the memo depends on the salutation alone
StaleMemoAgent ==
    Agent(SetTo("John Doe"), None, <<>>, <<GreetingEffect("cancel", None)>>,
          "sal", None)

\* the body updates the state, then the effect does: three passes
ThreePassAgent ==
    Agent(SetTo("John Doe"), "John Doe", <<SetTo("Jane Doe")>>,
          <<Effect("name", "Jane Doe", <<SetTo("Johnny Doe")>>, <<>>, "none", None)>>,
          "both", None)

\* the effect calls useState
MisuseAgent ==
    Agent(SetTo("John Doe"), None, <<>>, <<MisusingEffect("useState")>>, "both", None)

\* the first effect starts a timer and returns a cleanup that throws; the
\* second effect throws as long as the name is "John Doe"
RetryAgent ==
    Agent(SetTo("John Doe"), None, <<>>,
          <<Effect("empty", None, <<>>, <<SetTo("Jane Doe")>>, "throw", None),
            Effect("empty", None, <<>>, <<>>, "none", "John Doe")>>,
          "both", None)

\* the body updates the state in the first pass; the effect has the list []
LateEffectAgent ==
    Agent(SetTo("John Doe"), "John Doe", <<SetTo("Jane Doe")>>,
          <<Effect("empty", None, <<>>, <<>>, "noop", None)>>, "both", None)

\* the greeting scenario without a cleanup; the agent publishes its setter
PublishingAgent == [ScenarioAgent EXCEPT !.publishes = TRUE]

\* the update Host A gives to the setter of Host B
PeerChange == SetTo("Jack Doe")

\* the body calls the setter of the other Host
PeerBodyAgent ==
    [PlainAgent EXCEPT !.peerSets = <<PeerChange>>]

\* an effect calls the setter of the other Host
PeerEffectAgent ==
    [PlainAgent EXCEPT
        !.effects = <<[Effect("empty", None, <<>>, <<>>, "none", None)
                          EXCEPT !.peerSets = <<PeerChange>>]>>]

Agents ==
    {GreetingAgent, ScenarioAgent, HookGreetingAgent, PlainAgent, BatchAgent,
     ThrowOnArgAgent, ThrowOnNameAgent, EffectThrowsAgent, EffectThrowsLaterAgent,
     CleanupThrowsAgent, TwoEffectsAgent, TwoCleanupsAgent, DivergentAgent,
     SameValueAgent, StaleMemoAgent, ThreePassAgent, MisuseAgent, RetryAgent,
     LateEffectAgent}

\* the arguments render is called with
Salutations == {"Hello", "Hi"}

\* the calls of the README's usage example, in order
ReadmeScript ==
    <<[op |-> "render", arg |-> "Hello"], [op |-> "render", arg |-> "Welcome"],
      [op |-> "reset", arg |-> None], [op |-> "render", arg |-> "Hi"],
      [op |-> "render", arg |-> "Hey"]>>

(***************************************************************************)
(* The state machine.                                                      *)
(***************************************************************************)
Hosts == DOMAIN mem

\* the world a handler starts in
World ==
    [mem |-> mem, args |-> args, active |-> activeHost, rendering |-> rendering,
     micro |-> micro, timers |-> timers, setPeer |-> setPeer,
     out |-> [h \in Hosts |-> <<>>],
     log |-> <<>>, exc |-> None, fuel |-> MaxPasses, hung |-> FALSE]

NoHandler ==
    [op |-> "new", h |-> None, arg |-> None, out |-> <<>>, log |-> <<>>,
     threw |-> None]

\* the state after `new Host(agent, listener)`
Constructed(v, a, n) ==
    /\ variant = v
    /\ agent = [h \in {"A"} |-> a]
    /\ mem = [h \in {"A"} |-> EmptyMemory]
    /\ args = [h \in {"A"} |-> None]
    /\ activeHost = None
    /\ rendering = FALSE
    /\ micro = <<>>
    /\ timers = {}
    /\ setPeer = NoSetter
    /\ steps = n
    /\ hung = FALSE
    /\ last = NoHandler
    /\ history = <<>>

\* the state after the construction of two Hosts, A with agent a, B with b
ConstructedPair(v, a, b, n) ==
    /\ variant = v
    /\ agent = [h \in {"A", "B"} |-> IF h = "A" THEN a ELSE b]
    /\ mem = [h \in {"A", "B"} |-> EmptyMemory]
    /\ args = [h \in {"A", "B"} |-> None]
    /\ activeHost = None
    /\ rendering = FALSE
    /\ micro = <<>>
    /\ timers = {}
    /\ setPeer = NoSetter
    /\ steps = n
    /\ hung = FALSE
    /\ last = NoHandler
    /\ history = <<>>

Init == \E v \in {"agent", "hook"} : \E a \in Agents : Constructed(v, a, MaxSteps)

InitReadme == Constructed("agent", GreetingAgent, ReadmeSteps)

\* the state a handler leaves behind
Finish(w, op, h, arg, used) ==
    /\ mem' = w.mem
    /\ args' = w.args
    /\ activeHost' = w.active
    /\ rendering' = w.rendering
    /\ micro' = w.micro
    /\ timers' = w.timers
    /\ setPeer' = w.setPeer
    /\ hung' = w.hung
    /\ steps' = steps - used
    /\ last' = [op |-> op, h |-> h, arg |-> arg, out |-> w.out[h],
                log |-> w.log, threw |-> w.exc]
    /\ history' = Append(history, [op |-> op, h |-> h, arg |-> arg,
                                   out |-> w.out[h], threw |-> w.exc])
    /\ UNCHANGED <<variant, agent>>

DoRender(h, a, used) ==
    Finish(IF variant = "agent" THEN render(World, h, a) ELSE hookRender(World, h, a),
           "render", h, a, used)

DoReset(h, used) ==
    Finish(IF variant = "agent" THEN reset(World, h) ELSE hookReset(World, h),
           "reset", h, None, used)

\* the caller calls host.render(args)
Render ==
    /\ ~hung
    /\ steps > 0
    /\ \E h \in Hosts : \E a \in Salutations : DoRender(h, a, 1)

\* the caller calls host.reset()
Reset ==
    /\ ~hung
    /\ steps > 0
    /\ \E h \in Hosts : DoReset(h, 1)

\* the oldest queued microtask runs: () => host.#renderAsync()
Microtask ==
    /\ ~hung
    /\ micro # <<>>
    /\ LET h == Head(micro)
           w == [World EXCEPT !.micro = Tail(micro)]
       IN  Finish(IF variant = "agent" THEN renderAsync(w, h)
                  ELSE hookRenderAsynchronously(w, h),
                  "microtask", h, None, 0)

\* a timer callback runs (a new task: no microtask is pending); it calls the
\* setter it captured with each of its updates
Timeout ==
    /\ ~hung
    /\ steps > 0
    /\ micro = <<>>
    /\ \E t \in timers :
         Finish(setStates([World EXCEPT !.timers = @ \ {t}],
                          [h |-> t.h, pos |-> t.pos, live |-> t.live],
                          t.updates, 1),
                "timeout", t.h, None, 1)

Next == Render \/ Reset \/ Microtask \/ Timeout

Spec == Init /\ [][Next]_vars

\* the calls made so far
Calls == SelectSeq(history, LAMBDA e : e.op \in {"render", "reset"})

\* the caller makes the next call of the README's usage example
ScriptCall ==
    /\ ~hung
    /\ Len(Calls) < Len(ReadmeScript)
    /\ LET c == ReadmeScript[Len(Calls) + 1]
       IN  IF c.op = "render" THEN DoRender("A", c.arg, 0) ELSE DoReset("A", 0)

NextReadme == ScriptCall \/ Microtask \/ Timeout

SpecReadme == InitReadme /\ [][NextReadme]_vars

\* caller code calls a primitive outside any agent invocation
Misuse ==
    /\ ~hung
    /\ steps > 0
    /\ \E p \in Primitives : Finish(UsePrimitive(World, p), "misuse", "A", p, 1)

InitMisuse == \E v \in {"agent", "hook"} : \E a \in Agents : Constructed(v, a, MisuseSteps)

NextMisuse == Render \/ Reset \/ Microtask \/ Timeout \/ Misuse

SpecMisuse == InitMisuse /\ [][NextMisuse]_vars

\* Host A calls the setter Host B's agent published; B runs the greeting
\* scenario
InitPair ==
    \E v \in {"agent", "hook"} : \E a \in {PeerBodyAgent, PeerEffectAgent} :
        ConstructedPair(v, a, PublishingAgent, PairSteps)

SpecPair == InitPair /\ [][Next]_vars

InitLive == \E v \in {"agent", "hook"} : \E a \in Agents : Constructed(v, a, LiveSteps)

\* a step of Microtask: the handler recorded is a microtask
MicrotaskRan == Len(history') > Len(history) /\ last'.op = "microtask"

\* the microtask queue is always run: a queued #renderAsync eventually runs.
\* This is weak fairness of Microtask, WF_vars(Microtask), written out:
\* Microtask is enabled exactly when ~hung /\ micro # <<>>
MicrotaskFairness ==
    \/ []<>(hung \/ micro = <<>>)
    \/ []<><<MicrotaskRan>>_vars

SpecLive == InitLive /\ [][Next]_vars /\ MicrotaskFairness

(***************************************************************************)
(* Observations used by the properties.                                    *)
(***************************************************************************)
\* the events of the handlers hs, in order
Flat(hs) ==
    LET F[i \in 0..Len(hs)] == IF i = 0 THEN <<>> ELSE F[i - 1] \o hs[i].out
    IN  F[Len(hs)]

IsPrefix(s, t) == Len(s) <= Len(t) /\ s = SubSeq(t, 1, Len(s))

Reverse(s) == [i \in 1..Len(s) |-> s[Len(s) + 1 - i]]

Entries(log, k) == SelectSeq(log, LAMBDA e : e.k = k)

\* who threw during the handler: "agent", "effect", "cleanup"
Thrown(log) == [i \in 1..Len(Entries(log, "throw")) |-> Entries(log, "throw")[i].v]

\* the values the agent returned, in order
Returned(log) == [i \in 1..Len(Entries(log, "return")) |-> Entries(log, "return")[i].v]

\* the returned values that a later agent invocation superseded, in order
SupersededValues(log) ==
    LET F[i \in 0..Len(log)] ==
            IF i = 0 THEN <<>>
            ELSE IF /\ log[i].k = "return"
                    /\ \E j \in (i + 1)..Len(log) : log[j].k = "invoke"
            THEN Append(F[i - 1], log[i].v)
            ELSE F[i - 1]
    IN  F[Len(log)]

IsIntermediate(e) == e.type = "value" /\ e.intermediate

IsFinal(e) == e.type = "value" /\ ~e.intermediate

IntermediateValues(out) ==
    LET es == SelectSeq(out, IsIntermediate) IN [i \in 1..Len(es) |-> es[i].value]

Finals(out) == SelectSeq(out, IsFinal)

\* the handler was a call of render that returned to its caller
RenderReturned == last.op = "render" /\ last.threw = None /\ ~hung

John == ValueEvent("Hello, John Doe!", FALSE, TRUE)

Jane == ValueEvent("Hello, Jane Doe!", FALSE, FALSE)

Johnny == ValueEvent("Hello, Johnny Doe!", TRUE, FALSE)

\* the events the README's usage example prints
ReadmeEvents ==
    <<ValueEvent("Hello, John Doe!", FALSE, TRUE),
      ValueEvent("Hello, Jane Doe!", FALSE, FALSE),
      ValueEvent("Welcome, Jane Doe!", FALSE, FALSE),
      ResetEvent,
      ValueEvent("Hi, John Doe!", FALSE, TRUE),
      ValueEvent("Hi, Jane Doe!", FALSE, FALSE),
      ValueEvent("Hey, Jane Doe!", FALSE, FALSE),
      ValueEvent("Hey, Johnny Doe!", TRUE, FALSE)>>

(***************************************************************************)
(* C1: a call of render that returns hands the listener zero or more       *)
(* intermediate value events and then exactly one terminating event (a     *)
(* final value event or an error event), which is the last event of the    *)
(* call; a final value event carries the last value the agent returned.    *)
(***************************************************************************)
C1_OneTerminatingEvent ==
    (variant = "agent" /\ RenderReturned) =>
        LET out == last.out
            n   == Len(out)
        IN  /\ n >= 1
            /\ \A i \in 1..(n - 1) : IsIntermediate(out[i])
            /\ IsFinal(out[n]) \/ out[n].type = "error"
            /\ IsFinal(out[n]) =>
                   /\ Returned(last.log) # <<>>
                   /\ out[n].value = Returned(last.log)[Len(Returned(last.log))]

C1_Witness ==
    /\ variant = "agent"
    /\ RenderReturned
    /\ Len(last.out) = 3
    /\ IsIntermediate(last.out[1])
    /\ IsFinal(last.out[3])

(***************************************************************************)
(* C2: the greeting scenario.  The first call render(["Hello"]) on a fresh *)
(* Host emits the intermediate "Hello, John Doe!" and the final            *)
(* "Hello, Jane Doe!", both with async=false; with no further call the     *)
(* only event that follows is the final "Hello, Johnny Doe!" with          *)
(* async=true, and it has arrived once every timer and microtask has run.  *)
(***************************************************************************)
C2_GreetingScenario ==
    (/\ variant = "agent"
     /\ agent["A"] \in {ScenarioAgent, GreetingAgent}
     /\ history # <<>>
     /\ history[1].op = "render"
     /\ history[1].arg = "Hello") =>
        /\ history[1].out = <<John, Jane>>
        /\ Len(Calls) = 1 => IsPrefix(Flat(Tail(history)), <<Johnny>>)
        /\ (Len(Calls) = 1 /\ timers = {} /\ micro = <<>>) =>
               Flat(Tail(history)) = <<Johnny>>

C2_Witness ==
    /\ variant = "agent"
    /\ agent["A"] = ScenarioAgent
    /\ Len(Calls) = 1
    /\ timers = {}
    /\ micro = <<>>
    /\ Flat(history) = <<John, Jane, Johnny>>

(***************************************************************************)
(* C3: the README's usage example.  When its five calls are made in one    *)
(* synchronous run (no microtask or timer runs before the last call), the  *)
(* listener receives the README's first seven events during the calls,     *)
(* and afterwards exactly one more, the final "Hey, Johnny Doe!" with      *)
(* async=true.                                                             *)
(***************************************************************************)
SynchronousRun ==
    \A i \in 1..Len(history) :
        i <= Len(ReadmeScript) => history[i].op \in {"render", "reset"}

C3_ReadmeTrace ==
    SynchronousRun =>
        /\ IsPrefix(Flat(history), ReadmeEvents)
        /\ Len(history) >= Len(ReadmeScript) => Len(Flat(history)) >= 7
        /\ (Len(history) >= Len(ReadmeScript) /\ timers = {} /\ micro = <<>>) =>
               Flat(history) = ReadmeEvents

C3_Witness ==
    /\ SynchronousRun
    /\ Len(history) > Len(ReadmeScript)
    /\ timers = {}
    /\ micro = <<>>
    /\ Flat(history) = ReadmeEvents

(***************************************************************************)
(* C4: if the agent, an effect or a cleanup run by triggerEffects throws   *)
(* during a render procedure, the Host tears its Memory down, emits        *)
(* exactly one error event carrying the thrown value (async=false in       *)
(* render, async=true in a microtask), and nothing is thrown to the        *)
(* caller.                                                                 *)
(***************************************************************************)
ThrewInRender ==
    /\ last.op \in {"render", "microtask"}
    /\ Thrown(last.log) # <<>>

C4_ErrorEventOnThrow ==
    (variant = "agent" /\ ThrewInRender) =>
        /\ last.threw = None
        /\ mem[last.h] = EmptyMemory
        /\ SelectSeq(last.out, LAMBDA e : e.type = "error") =
               <<ErrorEvent(Thrown(last.log)[1] \o " error", last.op = "microtask")>>
        /\ last.out[Len(last.out)].type = "error"

(***************************************************************************)
(* C5: when the agent throws, the hard teardown runs every outstanding     *)
(* cleanup that does not itself throw, an error event is emitted and no    *)
(* exception escapes, also when a cleanup run by the teardown throws.      *)
(***************************************************************************)
\* the effect cells that still hold a cleanup that would not throw
UnrunCleanups(h) ==
    {i \in 1..Len(mem[h].cells) :
        /\ mem[h].cells[i].type = "effect"
        /\ mem[h].cells[i].dispose.kind \in {"noop", "cancel"}}

C5_TeardownSurvivesCleanupThrow ==
    (/\ last.op \in {"render", "microtask"}
     /\ Thrown(last.log) # <<>>
     /\ Thrown(last.log)[1] = "agent") =>
        /\ last.threw = None
        /\ UnrunCleanups(last.h) = {}
        /\ last.out # <<>>
        /\ last.out[Len(last.out)].type = "error"

(***************************************************************************)
(* C6: after a reset event or an error event the Memory is empty (until    *)
(* the next render call), and the next render does what the same render    *)
(* does on a freshly constructed Host: the same internal steps (the        *)
(* initializer, every effect, the memo producer run again) and the same    *)
(* events.                                                                 *)
(***************************************************************************)
\* the index of the last handler that emitted an event (0: none did)
LastHeard(hs) ==
    LET S == {i \in 1..Len(hs) : hs[i].out # <<>>}
    IN  IF S = {} THEN 0 ELSE CHOOSE i \in S : \A j \in S : j <= i

\* the last event the listener received from the handlers hs was a reset or
\* an error event
TornDown(hs) ==
    /\ LastHeard(hs) > 0
    /\ hs[LastHeard(hs)].out[Len(hs[LastHeard(hs)].out)].type \in {"reset", "error"}

\* the world right after `new Host(agent, listener)`
FreshWorld ==
    [World EXCEPT !.mem = [h \in Hosts |-> EmptyMemory],
                  !.args = [h \in Hosts |-> None],
                  !.micro = <<>>, !.timers = {}, !.setPeer = NoSetter]

FreshRender(h, a) ==
    IF variant = "agent" THEN render(FreshWorld, h, a) ELSE hookRender(FreshWorld, h, a)

SameAsFresh(f) ==
    /\ last.out = f.out[last.h]
    /\ last.log = f.log
    /\ last.threw = f.exc
    /\ hung = f.hung

C6_BlankSlateAfterTeardown ==
    /\ (/\ TornDown(history)
        /\ \A j \in (LastHeard(history) + 1)..Len(history) : history[j].op # "render")
           => mem["A"] = EmptyMemory
    /\ (/\ last.op = "render"
        /\ TornDown(SubSeq(history, 1, Len(history) - 1))
        /\ \A j \in (LastHeard(SubSeq(history, 1, Len(history) - 1)) + 1)
                       ..(Len(history) - 1) : history[j].op # "render")
           => SameAsFresh(FreshRender(last.h, last.arg))

C6_Witness ==
    /\ last.op = "render"
    /\ TornDown(SubSeq(history, 1, Len(history) - 1))
    /\ Len(history) >= 3
    /\ history[1].op = "render"
    /\ Len(history[1].out) = 2
    /\ last.out = history[1].out
    /\ Entries(last.log, "effect") # <<>>

(***************************************************************************)
(* C7: reset() always tears the Memory down and emits a reset event,       *)
(* whatever the state of the Host; two calls in a row emit two reset       *)
(* events and leave the Memory empty each time.                            *)
(***************************************************************************)
C7_ResetAlwaysResets ==
    last.op = "reset" =>
        /\ last.out = <<ResetEvent>>
        /\ last.threw = None
        /\ mem[last.h] = EmptyMemory

(***************************************************************************)
(* C8 as stated: within one render the superseded values are reported as   *)
(* intermediate, most recent first.                                        *)
(***************************************************************************)
HookRenderingEvents == SelectSeq(last.out, LAMBDA e : e.type = "rendering")

C8_InterimResultsDescending ==
    variant = "hook" =>
        \A i \in 1..Len(HookRenderingEvents) :
            /\ HookRenderingEvents[i].interimResults =
                   Reverse(SupersededValues(last.log))
            /\ HookRenderingEvents[i].result =
                   Returned(last.log)[Len(Returned(last.log))]

C8_MostRecentFirst ==
    /\ C8_InterimResultsDescending
    /\ (variant = "agent" /\ last.op \in {"render", "microtask"}) =>
           IntermediateValues(last.out) = Reverse(SupersededValues(last.log))

(***************************************************************************)
(* C8 amended: in index.ts every value superseded by a later agent         *)
(* invocation is reported in an intermediate value event, and these events *)
(* are emitted in the order the values were produced (oldest first); in    *)
(* the hook version a rendering event lists the superseded values in       *)
(* interimResults most recent first.                                       *)
(***************************************************************************)
C8_IntermediateOrder ==
    /\ C8_InterimResultsDescending
    /\ (variant = "agent" /\ last.op \in {"render", "microtask"}) =>
           IntermediateValues(last.out) = SupersededValues(last.log)

C8_Witness ==
    /\ variant = "agent"
    /\ last.op = "render"
    /\ Len(SupersededValues(last.log)) = 2
    /\ SupersededValues(last.log)[1] # SupersededValues(last.log)[2]
    /\ Len(last.out) = 3

(***************************************************************************)
(* C10: when a microtask runs #renderAsync and applying the pending state  *)
(* changes reports no change, the agent is not invoked and no event is     *)
(* emitted.                                                                *)
(***************************************************************************)
NothingToApply ==
    /\ last.op = "microtask"
    /\ last.log # <<>>
    /\ last.log[1].k = "apply"
    /\ last.log[1].v = "same"

C10_NoChangeNoRender ==
    NothingToApply =>
        /\ Entries(last.log, "invoke") = <<>>
        /\ last.out = <<>>
        /\ last.threw = None

\* a timer set the state to the value it had: the folded state is identical
C10_Witness ==
    /\ NothingToApply
    /\ Len(history) >= 2
    /\ history[Len(history) - 1].op = "timeout"
    /\ mem[last.h] # EmptyMemory

(***************************************************************************)
(* C9 as stated: the setter calls of one timer callback, once all their    *)
(* microtasks have run, have caused exactly one final value event.         *)
(***************************************************************************)
\* the index of the last timer callback in the history (0: none ran)
LastTimeout ==
    LET S == {i \in 1..Len(history) : history[i].op = "timeout"}
    IN  IF S = {} THEN 0 ELSE CHOOSE i \in S : \A j \in S : j <= i

\* no hard reset so far: every setter is bound to a cell of the Memory
NoTeardownYet ==
    \A i \in 1..Len(history) :
        /\ history[i].op # "reset"
        /\ history[i].threw = None
        /\ \A j \in 1..Len(history[i].out) : history[i].out[j].type # "error"

\* the microtasks of the last timer callback have all run, and nothing else
BatchDone ==
    /\ LastTimeout > 0
    /\ LastTimeout < Len(history)
    /\ \A i \in (LastTimeout + 1)..Len(history) : history[i].op = "microtask"
    /\ micro = <<>>
    /\ ~hung

C9_ExactlyOneFinalEvent ==
    (variant = "agent" /\ NoTeardownYet /\ BatchDone) =>
        Len(Finals(Flat(SubSeq(history, LastTimeout + 1, Len(history))))) = 1

(***************************************************************************)
(* C9 amended: setter calls made outside a render only extend the cell's   *)
(* queue, in call order, and queue one microtask each.  A microtask        *)
(* renders iff folding the whole queue changes a state, so a batch causes  *)
(* at most one asynchronous render procedure; the first agent invocation   *)
(* of that procedure observes all updates folded in call order (never a    *)
(* prefix of the batch), its events carry async=true, and it ends with     *)
(* exactly one final value event unless it throws or never converges.      *)
(***************************************************************************)
PendingCells(h) ==
    {i \in 1..Len(mem[h].cells) :
        mem[h].cells[i].type = "state" /\ mem[h].cells[i].stateChanges # <<>>}

FoldedState(h, i) ==
    FoldChanges(mem[h].cells[i].state, mem[h].cells[i].stateChanges, 1)

ChangedCells(h) == {i \in PendingCells(h) : FoldedState(h, i) # mem[h].cells[i].state}

\* a timer callback: each setter call appends to the queue of its cell (when
\* the cell is still part of the Memory) and queues one microtask
TimeoutStep ==
    \A t \in timers \ timers' :
        /\ micro' = micro \o [i \in 1..Len(t.updates) |-> t.h]
        /\ IF t.live
           THEN mem' = [mem EXCEPT ![t.h].cells[t.pos].stateChanges = @ \o t.updates]
           ELSE mem' = mem

\* a microtask: #renderAsync
MicrotaskStep ==
    LET h   == last'.h
        log == last'.log
        out == last'.out
        observed == Entries(log, "observe")
    IN  /\ ChangedCells(h) = {} => Entries(log, "invoke") = <<>> /\ out = <<>>
        /\ ChangedCells(h) # {} =>
              /\ observed # <<>>
              /\ observed[1].i \in PendingCells(h)
              /\ observed[1].v = FoldedState(h, observed[1].i)
              /\ variant = "agent" =>
                    /\ \A j \in 1..Len(out) :
                           out[j].type \in {"value", "error"} /\ out[j].async
                    /\ Len(Finals(out)) =
                           IF Thrown(log) = <<>> /\ ~hung' THEN 1 ELSE 0

C9_Coalesced ==
    [][/\ (Len(history') > Len(history) /\ last'.op = "timeout") => TimeoutStep
       /\ (Len(history') > Len(history) /\ last'.op = "microtask") => MicrotaskStep]_vars

\* the hook README's timer: setName('Janie'); setName(prev => prev + ' and Johnny')
C9_Witness ==
    /\ variant = "agent"
    /\ NoTeardownYet
    /\ BatchDone
    /\ Len(history) = LastTimeout + 2
    /\ history[LastTimeout + 1].out =
           <<ValueEvent("Hello Janie and Johnny", TRUE, FALSE)>>
    /\ history[LastTimeout + 2].out = <<>>

(***************************************************************************)
(* C11: setter calls made by the agent body during one agent invocation    *)
(* (three of them in BatchAgent) cause at most one additional pass: when   *)
(* the updates folded in call order change the state, exactly one further  *)
(* agent invocation follows, with one intermediate event and no effect     *)
(* run in between, and it observes the folded state.                       *)
(***************************************************************************)
\* the entries of log L after position j, up to the next entry of kind k
Until(L, j, k) ==
    LET S == {m \in (j + 1)..Len(L) : L[m].k = k}
    IN  IF S = {} THEN SubSeq(L, j + 1, Len(L))
        ELSE SubSeq(L, j + 1, (CHOOSE m \in S : \A n \in S : m <= n) - 1)

\* the agent invocation that observed its state at position j of the log
\* called the setter in its body
BodySetAt(L, h, j) ==
    /\ L[j].k = "observe"
    /\ L[j].v = agent[h].bodyWhen
    /\ agent[h].bodySets # <<>>

OneMorePass(L, h, j) ==
    LET n      == Len(agent[h].bodySets)
        rest   == Until(L, j, "observe")
        folded == FoldChanges(L[j].v, agent[h].bodySets, 1)
    IN  /\ Len(rest) >= n
        /\ \A i \in 1..n :
               /\ rest[i].k = "set"
               /\ rest[i].a = h
               /\ rest[i].v = agent[h].bodySets[i].v
        /\ (folded # L[j].v /\ Entries(rest, "throw") = <<>>) =>
               /\ Len(Entries(rest, "invoke")) = 1
               /\ Entries(rest, "effect") = <<>>
               /\ variant = "agent" => Len(Entries(rest, "emit")) = 1
               /\ j + Len(rest) < Len(L)
               /\ L[j + Len(rest) + 1].v = folded

C11_BatchedBodyUpdates ==
    (last.op \in {"render", "microtask"} /\ ~hung) =>
        \A j \in 1..Len(last.log) :
            BodySetAt(last.log, last.h, j) => OneMorePass(last.log, last.h, j)

C11_Witness ==
    /\ variant = "agent"
    /\ last.op = "render"
    /\ Len(agent[last.h].bodySets) = 3
    /\ Len(Entries(last.log, "invoke")) = 2
    /\ last.out = <<ValueEvent("Hello, John Doe!", FALSE, TRUE),
                    ValueEvent("Hello, Jane Doe Jr II!", FALSE, FALSE)>>

(***************************************************************************)
(* C12: the effect re-run law.  In a render procedure that completes, each *)
(* time the outdated effects are run the effect of a slot is invoked       *)
(* (once, with the closure of the latest agent invocation) if and only if, *)
(* since its last invocation, useEffect was called for the slot with no    *)
(* previous list (first render, or first after a hard reset), with an      *)
(* undefined list, or with a list that differs from the previous one.      *)
(***************************************************************************)
\* a handler has just run
HandlerStep == Len(history') > Len(history)

\* the handler was a render procedure that ran to its end
Completed ==
    /\ last'.op \in {"render", "microtask"}
    /\ Thrown(last'.log) = <<>>
    /\ ~hung'

Latest(S) == CHOOSE m \in S : \A n \in S : n <= m

\* the positions of the log at which the agent observed its state
Observations(L, from, to) == {k \in from..to : L[k].k = "observe"}

\* the dependency list useEffect was last called with for effect s before
\* the agent invocation at position k (cell s + 1: the state cell is first)
PrevEffectDeps(L, h, s, k) ==
    IF Observations(L, 1, k - 1) # {}
    THEN [exists |-> TRUE,
          deps |-> EffectDeps(agent[h].effects[s],
                              L[Latest(Observations(L, 1, k - 1))].v)]
    ELSE IF Len(mem[h].cells) >= s + 1
    THEN [exists |-> TRUE, deps |-> mem[h].cells[s + 1].dependencies]
    ELSE [exists |-> FALSE, deps |-> NoDeps]

Outdates(L, h, s, k) ==
    \/ ~PrevEffectDeps(L, h, s, k).exists
    \/ ~areDependenciesEqual(PrevEffectDeps(L, h, s, k).deps,
                             EffectDeps(agent[h].effects[s], L[k].v))

\* the positions where the outdated effects start to run: the inner loop's
\* applyStateChanges() reported no change
EffectBlocks(L) ==
    {b \in 2..Len(L) : L[b].k = "apply" /\ L[b].v = "same" /\ L[b - 1].k = "return"}

BlockEnd(L, b) == b + Len(Until(L, b, "apply"))

RunsIn(L, s, from, to) == {j \in from..to : L[j].k = "effect" /\ L[j].i = s + 1}

Due(L, h, b, s) ==
    \E k \in Observations(L, IF RunsIn(L, s, 1, b) = {} THEN 1
                             ELSE Latest(RunsIn(L, s, 1, b)), b) :
        Outdates(L, h, s, k)

EffectRerunLaw(L, h) ==
    \A b \in EffectBlocks(L) : \A s \in 1..Len(agent[h].effects) :
        /\ Cardinality(RunsIn(L, s, b + 1, BlockEnd(L, b))) =
               IF Due(L, h, b, s) THEN 1 ELSE 0
        /\ \A j \in RunsIn(L, s, b + 1, BlockEnd(L, b)) :
               L[j].v = L[Latest(Observations(L, 1, b))].v

C12_EffectRerunLaw ==
    [][(HandlerStep /\ Completed) => EffectRerunLaw(last'.log, last'.h)]_vars

(***************************************************************************)
(* C13: cleanup ordering.  For every effect slot, the cleanup recorded     *)
(* from an invocation of the effect is invoked before the next invocation  *)
(* of that effect runs and before a hard teardown (reset or error)         *)
(* discards the slot; no recorded cleanup is skipped by a teardown, and a  *)
(* cleanup does not run once the next invocation has started.              *)
(***************************************************************************)
\* the positions before j at which the effect of slot s or its cleanup ran
SlotEntries(L, s, j) ==
    {m \in 1..(j - 1) : L[m].k \in {"effect", "cleanup"} /\ L[m].i = s + 1}

\* the effect or cleanup invoked at position from threw before position to
Threw(L, from, to, who) ==
    \E m \in from..to :
        /\ L[m].k = "throw"
        /\ L[m].v \in who
        /\ \A x \in (from + 1)..(m - 1) : L[x].k \notin {"effect", "cleanup"}

\* when position j is reached, slot s holds a recorded cleanup: the one the
\* handler found, the one returned by the slot's latest invocation, or one
\* whose invocation threw
Recorded(L, h, s, j) ==
    IF SlotEntries(L, s, j) = {}
    THEN /\ Len(mem[h].cells) >= s + 1
         /\ mem[h].cells[s + 1].type = "effect"
         /\ mem[h].cells[s + 1].dispose # NoDispose
    ELSE IF L[Latest(SlotEntries(L, s, j))].k = "effect"
    THEN /\ ~Threw(L, Latest(SlotEntries(L, s, j)), j - 1, {"effect", "misuse"})
         /\ agent[h].effects[s].cleanup # "none"
    ELSE Threw(L, Latest(SlotEntries(L, s, j)), j - 1, {"cleanup"})

\* the position at which the hard teardown of the handler starts (0: the
\* handler made none)
TeardownStart(L, op) ==
    IF op = "reset" THEN 1
    ELSE IF op \in {"render", "microtask"} /\ Entries(L, "throw") # <<>>
    THEN 1 + CHOOSE m \in 1..Len(L) :
                 L[m].k = "throw" /\ \A x \in 1..(m - 1) : L[x].k # "throw"
    ELSE 0

CleanupOrder(L, h, s, start) ==
    /\ \A j \in 1..Len(L) :
           (L[j].k = "effect" /\ L[j].i = s + 1 /\ Recorded(L, h, s, j)) =>
               /\ j > 1
               /\ L[j - 1].k = "cleanup"
               /\ L[j - 1].i = s + 1
    /\ \A j \in 1..Len(L) :
           (L[j].k = "cleanup" /\ L[j].i = s + 1) => Recorded(L, h, s, j)
    /\ (start > 0 /\ Recorded(L, h, s, start)) =>
           \E j \in start..Len(L) : L[j].k = "cleanup" /\ L[j].i = s + 1
    /\ mem'[h] = EmptyMemory => ~Recorded(L, h, s, Len(L) + 1)

C13_CleanupOrdering ==
    [][HandlerStep =>
         \A s \in 1..Len(agent[last'.h].effects) :
             CleanupOrder(last'.log, last'.h, s,
                          TeardownStart(last'.log, last'.op))]_vars

(***************************************************************************)
(* C14: the active-Host reference is set only during an agent invocation:  *)
(* it is unset when a handler returns (also when it returns by an          *)
(* exception), when the listener is called, while effects and cleanups run *)
(* and when state changes are applied, and it is the rendering Host while  *)
(* the agent runs; the rendering flag of the hook version is false once    *)
(* the render procedure has been left.                                     *)
(***************************************************************************)
InsideAgent == {"observe", "init", "produce", "return"}

OutsideAgent == {"emit", "effect", "cleanup", "apply"}

C14_ActiveHostScoped ==
    ~hung =>
        /\ activeHost = None
        /\ rendering = FALSE
        /\ \A j \in 1..Len(last.log) :
               /\ last.log[j].k \in OutsideAgent => last.log[j].a = None
               /\ last.log[j].k \in InsideAgent => last.log[j].a = last.log[j].h
               /\ (last.log[j].k = "throw" /\ last.log[j].v # "agent") =>
                      last.log[j].a = None

\* the agent threw in a render of the hook version and the error was reported
C14_Witness ==
    /\ variant = "hook"
    /\ last.op = "render"
    /\ \E j \in 1..Len(last.log) :
           last.log[j].k = "throw" /\ last.log[j].v = "agent"
    /\ Len(last.out) = 1
    /\ last.out[1].type = "error"
    /\ C14_ActiveHostScoped

(***************************************************************************)
(* C15: a primitive invoked while no Host is active fails at the offending *)
(* call: its error reaches the code that made the call, no listener is     *)
(* called and no teardown is made because of it, and when caller code made *)
(* the call no Memory, microtask or timer is changed.                      *)
(***************************************************************************)
MisuseAt(L, j) == L[j].k = "throw" /\ L[j].v = "misuse"

MisuseNotFunneled(L) ==
    \A j \in 1..Len(L) :
        MisuseAt(L, j) =>
            /\ last'.threw = "misuse error"
            /\ \A m \in (j + 1)..Len(L) : L[m].k \notin {"emit", "cleanup"}
            /\ last'.op = "misuse" =>
                   /\ last'.out = <<>>
                   /\ mem' = mem
                   /\ micro' = micro
                   /\ timers' = timers

C15_MisuseFailsImmediately == [][HandlerStep => MisuseNotFunneled(last'.log)]_vars

(***************************************************************************)
(* C16: a state update made outside the synchronous render never runs a    *)
(* render procedure synchronously.  A timer callback that calls a setter   *)
(* only queues the update and schedules one microtask per call: it invokes *)
(* no agent, applies no state, runs no effect and calls no listener.  No   *)
(* agent invocation of a handler contains a step of a render procedure:    *)
(* between its start and its return or throw nothing else is invoked,      *)
(* applied, run or emitted.                                                *)
(***************************************************************************)
OnlyQueued(L, h) ==
    /\ \A j \in 1..Len(L) : L[j].k = "set"
    /\ last'.out = <<>>
    /\ last'.threw = None
    /\ micro' = micro \o [j \in 1..Len(L) |-> h]
    /\ Len(mem'[h].cells) = Len(mem[h].cells)
    /\ \A i \in 1..Len(mem[h].cells) :
           mem[h].cells[i].type = "state" =>
               /\ mem'[h].cells[i].state = mem[h].cells[i].state
               /\ Len(mem'[h].cells[i].stateChanges)
                      >= Len(mem[h].cells[i].stateChanges)

RenderSteps == {"invoke", "apply", "emit", "effect", "cleanup"}

NotReentered(L) ==
    \A j \in 1..Len(L) :
        L[j].k = "invoke" =>
            \E m \in (j + 1)..Len(L) :
                /\ \/ L[m].k = "return"
                   \/ L[m].k = "throw" /\ L[m].v = "agent"
                /\ \A x \in (j + 1)..(m - 1) : L[x].k \notin RenderSteps

C16_NoSynchronousRender ==
    [][HandlerStep =>
         /\ last'.op = "timeout" => OnlyQueued(last'.log, last'.h)
         /\ NotReentered(last'.log)]_vars

\* a timer callback called the setter of a live cell twice while microtasks
\* were allowed, and the Host had rendered before
C16_Witness ==
    /\ last.op = "timeout"
    /\ Len(last.log) = 2
    /\ micro = <<last.h, last.h>>
    /\ \E i \in 1..Len(mem[last.h].cells) :
           /\ mem[last.h].cells[i].type = "state"
           /\ Len(mem[last.h].cells[i].stateChanges) = 2

(***************************************************************************)
(* C17: memoization stability.  In every agent invocation the producer of  *)
(* the memoization primitive is invoked exactly when the slot holds no     *)
(* stored value (first call, or first call after the Memory was discarded) *)
(* or the dependency list of the call differs from the stored one;         *)
(* otherwise the invocation gets the stored value, whatever the producer   *)
(* would have returned.                                                    *)
(***************************************************************************)
\* the agent calls the memoization primitive after useState and its
\* useEffect calls: at this distance from the pointer the invocation found
MemoSlot(h) == Len(agent[h].effects) + 2

\* the values and lists stored in memo cells when the handler starts
StoredMemos(h) ==
    [s \in 1..(Len(mem[h].cells) + MemoSlot(h)) |->
        IF s <= Len(mem[h].cells) /\ mem[h].cells[s].type = "memo"
        THEN [value |-> mem[h].cells[s].value,
              dependencies |-> mem[h].cells[s].dependencies]
        ELSE NoCell]

\* the dependency list of the call made by the invocation with entries seg
CallDeps(seg, h, salutation) ==
    MemoDeps(agent[h], salutation, Entries(seg, "observe")[1].v)

MustProduce(cell, deps) ==
    \/ cell = NoCell
    \/ ~areDependenciesEqual(cell.dependencies, deps)

\* what the producer of the invocation returns when invoked
Producer(seg, h, salutation) ==
    GreetingOf(agent[h], salutation, Entries(seg, "observe")[1].v)

MemoCall(seg, h, salutation, cell, slot) ==
    /\ Len(Entries(seg, "produce")) =
           IF MustProduce(cell, CallDeps(seg, h, salutation)) THEN 1 ELSE 0
    /\ \A m \in 1..Len(seg) : seg[m].k = "produce" => seg[m].i = slot
    /\ Entries(seg, "return") # <<>> =>
           Entries(seg, "return")[1].v =
               IF MustProduce(cell, CallDeps(seg, h, salutation))
               THEN Producer(seg, h, salutation)
               ELSE cell.value

MemoAfter(seg, h, salutation, cell) ==
    IF MustProduce(cell, CallDeps(seg, h, salutation))
    THEN [value |-> Producer(seg, h, salutation),
          dependencies |-> CallDeps(seg, h, salutation)]
    ELSE cell

\* the invocations of the log from position j on follow the law; stored holds
\* the memo cells, pointer the Memory's pointer when the invocation starts
RECURSIVE MemoLaw(_, _, _, _, _)
MemoLaw(L, h, j, stored, pointer) ==
    IF j > Len(L) THEN TRUE
    ELSE IF L[j].k # "invoke" THEN MemoLaw(L, h, j + 1, stored, pointer)
    ELSE /\ MemoCall(Until(L, j, "invoke"), h, L[j].v,
                     stored[pointer + MemoSlot(h)], pointer + MemoSlot(h))
         /\ MemoLaw(L, h, j + 1,
                    [stored EXCEPT ![pointer + MemoSlot(h)] =
                        MemoAfter(Until(L, j, "invoke"), h, L[j].v, @)],
                    0)

C17_MemoStability ==
    [][HandlerStep =>
         MemoLaw(last'.log, last'.h, 1, StoredMemos(last'.h),
                 mem[last'.h].pointer)]_vars

\* a render of two invocations in which the producer ran once and the second
\* invocation, whose state had changed, returned the stored value
C17_Witness ==
    /\ last.op = "render"
    /\ Len(Entries(last.log, "invoke")) = 2
    /\ Len(Entries(last.log, "produce")) = 1
    /\ Len(Returned(last.log)) = 2
    /\ Returned(last.log)[2] = Returned(last.log)[1]
    /\ Entries(last.log, "observe")[2].v # Entries(last.log, "observe")[1].v

(***************************************************************************)
(* C18: when a timer callback has called the setter of a live state cell   *)
(* while the Host was not active and the folded updates change the state,  *)
(* then, unless a reset or an error comes first, the listener eventually   *)
(* receives a final event from an agent invocation that observed the       *)
(* updated state, whether or not render is called again; and every event   *)
(* of a render started by the microtask carries async = true.              *)
(***************************************************************************)
\* the states a timer's updates can fold to
UpdatedStates ==
    UNION {{FoldChanges(a.init.v, a.effects[i].timer, 1) :
               i \in {j \in 1..Len(a.effects) : a.effects[j].timer # <<>>}} :
           a \in Agents}

\* a timer callback has just queued updates that change a state to v
UpdatePending(v) ==
    /\ last.op = "timeout"
    /\ \E i \in ChangedCells(last.h) : FoldedState(last.h, i) = v

IsFinalEvent(e) ==
    IF variant = "agent" THEN e.type = "value" /\ ~e.intermediate
    ELSE e.type = "rendering"

\* the last handler emitted a final event for an invocation that observed v
FinalEventFor(v) ==
    /\ last.op \in {"microtask", "render"}
    /\ last.out # <<>>
    /\ IsFinalEvent(last.out[Len(last.out)])
    /\ Entries(last.log, "observe") # <<>>
    /\ Entries(last.log, "observe")[Len(Entries(last.log, "observe"))].v = v

\* a reset was called, or a handler ended with an error
ResetOrError ==
    \/ last.op = "reset"
    \/ last.threw # None
    \/ \E j \in 1..Len(last.out) : last.out[j].type = "error"

AsyncEvents ==
    (variant = "agent" /\ last.op = "microtask") =>
        \A j \in 1..Len(last.out) : last.out[j].async

C18_UpdateEventuallyReported ==
    /\ \A v \in UpdatedStates :
           UpdatePending(v) ~> (FinalEventFor(v) \/ ResetOrError)
    /\ []AsyncEvents

\* the microtask scheduled by a timer's setter call applied the update and
\* its render reported the new state in one final event with async = true
C18_Witness ==
    /\ variant = "agent"
    /\ last.op = "microtask"
    /\ Len(history) >= 2
    /\ history[Len(history) - 1].op = "timeout"
    /\ Len(last.out) = 1
    /\ last.out[1].async
    /\ \E v \in UpdatedStates : FinalEventFor(v)

(***************************************************************************)
(* C19: termination of the render procedure.  Every render procedure that  *)
(* begins and does not throw completes: its last pass is followed by an    *)
(* application of state changes that reports no change both after the      *)
(* agent invocation and after the effects, the final event is emitted      *)
(* then, and the procedure is never still running after MaxPasses passes.  *)
(***************************************************************************)
\* the handler began a render procedure (it invoked the agent)
RenderBegun == last.op \in {"render", "microtask"} /\ Entries(last.log, "invoke") # <<>>

LastReturn(L) == Latest({j \in 1..Len(L) : L[j].k = "return"})

\* the log ends: return, apply (no change), the effects, apply (no change),
\* the final event
Converged(L) ==
    /\ Len(L) >= 4
    /\ L[Len(L)].k = "emit"
    /\ L[Len(L) - 1].k = "apply"
    /\ L[Len(L) - 1].v = "same"
    /\ Entries(L, "return") # <<>>
    /\ LastReturn(L) <= Len(L) - 3
    /\ L[LastReturn(L) + 1].k = "apply"
    /\ L[LastReturn(L) + 1].v = "same"
    /\ \A j \in (LastReturn(L) + 2)..(Len(L) - 2) :
           L[j].k \in {"cleanup", "effect", "set"}

C19_AlwaysCompletes ==
    (RenderBegun /\ Thrown(last.log) = <<>>) =>
        /\ ~hung
        /\ Converged(last.log)
        /\ last.out # <<>>
        /\ IsFinalEvent(last.out[Len(last.out)])

(***************************************************************************)
(* C20: the effects of a pass run strictly after the state of the pass has *)
(* converged.  In a render procedure every effect and every cleanup run by *)
(* triggerEffects comes after an application of state changes that         *)
(* reported no change right after the agent returned (so no update is      *)
(* pending and the invocation observed the current state), with nothing    *)
(* but effects, cleanups and their setter calls in between; after an       *)
(* application that reported a change no effect or cleanup runs before the *)
(* next invocation; and a render procedure that completes leaves no update *)
(* pending and the state its last invocation observed.                     *)
(***************************************************************************)
NoThrowBefore(L, j) == \A x \in 1..(j - 1) : L[x].k # "throw"

AfterConvergence(L, j) ==
    \E b \in EffectBlocks(L) :
        /\ b < j
        /\ \A x \in (b + 1)..(j - 1) : L[x].k \in {"cleanup", "effect", "set"}

InnerLoopClean(L, j) ==
    \A x \in 1..Len(Until(L, j, "invoke")) :
        Until(L, j, "invoke")[x].k \notin {"cleanup", "effect"}

LastObserved(L) == Entries(L, "observe")[Len(Entries(L, "observe"))]

C20_EffectsAfterConvergence ==
    last.op \in {"render", "microtask"} =>
        /\ \A j \in 1..Len(last.log) :
               /\ (last.log[j].k \in {"effect", "cleanup"}
                       /\ NoThrowBefore(last.log, j)) =>
                      AfterConvergence(last.log, j)
               /\ (j > 1 /\ last.log[j].k = "apply" /\ last.log[j].v = "changed"
                       /\ last.log[j - 1].k = "return") =>
                      InnerLoopClean(last.log, j)
        /\ (RenderBegun /\ Thrown(last.log) = <<>> /\ ~hung) =>
               /\ PendingCells(last.h) = {}
               /\ mem[last.h].cells[LastObserved(last.log).i].state =
                      LastObserved(last.log).v

\* a render whose inner loop ran twice (the body updated the state) before
\* its effect ran and updated the state again
C20_Witness ==
    /\ last.op = "render"
    /\ last.threw = None
    /\ ~hung
    /\ \E j \in 2..Len(last.log) :
           /\ last.log[j].k = "apply"
           /\ last.log[j].v = "changed"
           /\ last.log[j - 1].k = "return"
           /\ \E e \in (j + 1)..(Len(last.log) - 1) :
                  last.log[e].k = "effect" /\ last.log[e + 1].k = "set"

(***************************************************************************)
(* C21: a setter call only appends to the queue of its cell.  Replaying    *)
(* the steps of a handler: the state of a cell is what the agent observes, *)
(* it changes only when pending changes are applied, every application     *)
(* folds the whole queue in call order and reports a change exactly when   *)
(* a fold differs from the state, and the value an invocation produces is  *)
(* made from the state it observed, also after it called the setter.  A    *)
(* timer callback leaves states unchanged and extends the queue by its     *)
(* calls.                                                                  *)
(***************************************************************************)
\* the state cells the handler finds: state and queue by position; a cell
\* created by the handler becomes known when the agent first observes it
KnownCells(h) ==
    [p \in 1..(Len(mem[h].cells) + 1) |->
        IF p <= Len(mem[h].cells) /\ mem[h].cells[p].type = "state"
        THEN [known |-> TRUE, state |-> mem[h].cells[p].state,
              queue |-> mem[h].cells[p].stateChanges]
        ELSE [known |-> FALSE, state |-> None, queue |-> <<>>]]

\* the effect of the agent stored in cell i (cells repeat in the order state,
\* effects, memo)
EffectOf(h, i) == (i - 1) % MemoSlot(h)

\* the entry that started the setter calls position j belongs to
SetAnchor(L, j) == Latest({x \in 1..(j - 1) : L[x].k \in {"observe", "effect"}})

\* the updates the agent body or the effect at the anchor passes to the setter
SetsAt(L, h, a) ==
    IF L[a].k = "observe" THEN agent[h].bodySets
    ELSE agent[h].effects[EffectOf(h, L[a].i)].sets

\* the setter call at position j of the log is the n-th call of its caller
IsSetCall(L, h, j) ==
    /\ \E x \in 1..(j - 1) : L[x].k \in {"observe", "effect"}
    /\ \A x \in (SetAnchor(L, j) + 1)..j : L[x].k = "set"
    /\ j - SetAnchor(L, j) <= Len(SetsAt(L, h, SetAnchor(L, j)))
    /\ SetsAt(L, h, SetAnchor(L, j))[j - SetAnchor(L, j)].v = L[j].v

SetChange(L, h, j) == SetsAt(L, h, SetAnchor(L, j))[j - SetAnchor(L, j)]

FoldKnown(c) ==
    IF c.known THEN [c EXCEPT !.state = FoldChanges(c.state, c.queue, 1),
                              !.queue = <<>>]
    ELSE c

AnyChange(cells) ==
    \E p \in DOMAIN cells : FoldKnown(cells[p]).state # cells[p].state

\* the Memory the handler leaves agrees with the replayed cells
EndMatches(h, cells) ==
    \A p \in DOMAIN cells :
        (cells[p].known /\ p <= Len(mem'[h].cells)) =>
            /\ mem'[h].cells[p].type = "state"
            /\ mem'[h].cells[p].state = cells[p].state
            /\ mem'[h].cells[p].stateChanges = cells[p].queue

\* the value produced at position j is made from the arguments and the state
\* of the invocation it belongs to
ProducedFromObserved(L, j) ==
    L[j].v = GreetingOf(agent[L[j].h],
                        L[Latest({x \in 1..j : L[x].k = "invoke"})].v,
                        L[Latest({x \in 1..j : L[x].k = "observe"})].v)

RECURSIVE Replay(_, _, _, _)
Replay(L, h, j, cells) ==
    IF j > Len(L) THEN EndMatches(h, cells)
    ELSE IF L[j].k = "throw" THEN TRUE
    ELSE IF L[j].k = "set"
    THEN /\ IsSetCall(L, h, j)
         /\ L[j].i \in DOMAIN cells
         /\ cells[L[j].i].known
         /\ Replay(L, h, j + 1,
                   [cells EXCEPT ![L[j].i].queue = Append(@, SetChange(L, h, j))])
    ELSE IF L[j].k = "apply"
    THEN /\ (L[j].v = "changed") = AnyChange(cells)
         /\ Replay(L, h, j + 1, [p \in DOMAIN cells |-> FoldKnown(cells[p])])
    ELSE IF L[j].k = "observe"
    THEN /\ L[j].i \in DOMAIN cells
         /\ cells[L[j].i].known => cells[L[j].i].state = L[j].v
         /\ Replay(L, h, j + 1,
                   [cells EXCEPT ![L[j].i].known = TRUE, ![L[j].i].state = L[j].v])
    ELSE IF L[j].k = "produce"
    THEN ProducedFromObserved(L, j) /\ Replay(L, h, j + 1, cells)
    ELSE Replay(L, h, j + 1, cells)

C21_SetterOnlyQueues ==
    [][HandlerStep =>
         /\ last'.op \in {"render", "microtask"} =>
                Replay(last'.log, last'.h, 1, KnownCells(last'.h))
         /\ last'.op = "timeout" => TimeoutStep]_vars

\* the body called the setter three times in the hook version: the first
\* invocation still returned the greeting of the state it had observed, and
\* the second one observed the three updates folded
C21_Witness ==
    /\ variant = "hook"
    /\ last.op = "render"
    /\ Len(Entries(last.log, "set")) = 3
    /\ Len(Entries(last.log, "observe")) = 2
    /\ Entries(last.log, "observe")[2].v =
           FoldChanges(Entries(last.log, "observe")[1].v, agent[last.h].bodySets, 1)
    /\ Entries(last.log, "observe")[2].v # Entries(last.log, "observe")[1].v
    /\ Returned(last.log)[1] =
           GreetingOf(agent[last.h], last.arg, Entries(last.log, "observe")[1].v)

(***************************************************************************)
(* C22: an effect cell that is still outdated takes the function and the   *)
(* dependency list of every further agent invocation: each effect that     *)
(* runs in a render procedure is the function the latest invocation        *)
(* supplied, and it runs once after an inner loop of several passes.  A    *)
(* cell whose effect does not run in a completed render procedure was not  *)
(* outdated and was given an equal list by every invocation, and it is     *)
(* left as it was: function, list, flag and cleanup.                       *)
(***************************************************************************)
LatestInvoke(L, j) == Latest({x \in 1..j : L[x].k = "invoke"})

\* the effect run at position j is the one of the latest invocation and has
\* not run since that invocation
RunsLatestOnce(L, j) ==
    /\ Observations(L, 1, j) # {}
    /\ L[j].v = L[Latest(Observations(L, 1, j))].v
    /\ \A x \in LatestInvoke(L, j)..(j - 1) :
           ~(L[x].k = "effect" /\ L[x].i = L[j].i)

\* the effect cell at position p that the handler found was not outdated
\* and every invocation gave it a list equal to the stored one
EqualListNotOutdated(L, h, p) ==
    /\ ~mem[h].cells[p].outdated
    /\ \A k \in Observations(L, 1, Len(L)) :
           areDependenciesEqual(mem[h].cells[p].dependencies,
                                EffectDeps(agent[h].effects[EffectOf(h, p)], L[k].v))

Untouched(h, p) ==
    /\ Len(mem'[h].cells) >= p
    /\ mem'[h].cells[p] = mem[h].cells[p]

EffectCellLaw(L, h) ==
    /\ \A j \in 1..Len(L) :
           (L[j].k = "effect" /\ NoThrowBefore(L, j)) => RunsLatestOnce(L, j)
    /\ (Thrown(L) = <<>> /\ ~hung') =>
           \A p \in 1..Len(mem[h].cells) :
               mem[h].cells[p].type = "effect" =>
                   /\ EqualListNotOutdated(L, h, p) =
                          (\A j \in 1..Len(L) : ~(L[j].k = "effect" /\ L[j].i = p))
                   /\ EqualListNotOutdated(L, h, p) => Untouched(h, p)

C22_OutdatedCellTakesLatest ==
    [][(HandlerStep /\ last'.op \in {"render", "microtask"}
            /\ Entries(last'.log, "invoke") # <<>>) =>
          EffectCellLaw(last'.log, last'.h)]_vars

\* LateEffectAgent: an inner loop of two passes, then the effect with the
\* list [] ran once, as supplied by the second invocation
C22_Witness ==
    /\ last.op = "render"
    /\ last.threw = None
    /\ Len(Entries(last.log, "invoke")) = 2
    /\ Len(Entries(last.log, "effect")) = 1
    /\ agent[last.h].effects[1].deps = "empty"
    /\ Entries(last.log, "effect")[1].v = Entries(last.log, "observe")[2].v
    /\ Entries(last.log, "observe")[2].v # Entries(last.log, "observe")[1].v

(***************************************************************************)
(* C23: after a reset or error event and until render is called again the  *)
(* Host is inert.  A timer callback (its setter belongs to a discarded     *)
(* cell) or a microtask that runs in between emits no event, invokes no    *)
(* agent, throws nothing and leaves the Memory empty; and the render call  *)
(* that ends such a period behaves as the first render of a new Host.      *)
(***************************************************************************)
Earlier == SubSeq(history, 1, Len(history) - 1)

\* since the last event, a reset or error event, render has not been called
InertSince(hs) ==
    /\ TornDown(hs)
    /\ \A j \in (LastHeard(hs) + 1)..Len(hs) : hs[j].op # "render"

\* a timer callback or a microtask ran since the last event
StaleCalls(hs) ==
    \E j \in (LastHeard(hs) + 1)..Len(hs) : hs[j].op \in {"timeout", "microtask"}

C23_InertAfterTeardown ==
    (history # <<>> /\ InertSince(Earlier)) =>
        /\ last.op \in {"timeout", "microtask"} =>
               /\ last.out = <<>>
               /\ last.threw = None
               /\ Entries(last.log, "invoke") = <<>>
               /\ Entries(last.log, "effect") = <<>>
               /\ mem[last.h] = EmptyMemory
        /\ (last.op = "render" /\ StaleCalls(Earlier)) =>
               SameAsFresh(FreshRender(last.h, last.arg))

\* after a reset event a timer of the discarded Memory called its setter and
\* the microtask it scheduled ran
C23_Witness ==
    /\ Len(history) >= 4
    /\ last.op = "microtask"
    /\ history[Len(history) - 1].op = "timeout"
    /\ history[Len(history) - 2].op = "reset"
    /\ history[Len(history) - 2].out = <<ResetEvent>>
    /\ InertSince(Earlier)
    /\ last.out = <<>>

(***************************************************************************)
(* C24: Hosts are independent.  When code of a rendering Host (its agent   *)
(* body or one of its effects) calls the setter of a live state cell of    *)
(* the other, idle Host, the render leaves the other Host's Memory as it   *)
(* was apart from the queued update and leaves a microtask queued for the  *)
(* other Host; that microtask, when the update changes the state, renders  *)
(* the other Host and gives its listener a final event (async=true).       *)
(***************************************************************************)
\* the calls of a setter of Host p in a handler's log
SetterCalls(L, p) == SelectSeq(L, LAMBDA e : e.k = "set" /\ e.h = p)

\* the microtasks queued for Host p
Queued(q, p) == {i \in DOMAIN q : q[i] = p}

\* a Memory without the update queues of its state cells
WithoutQueues(m) ==
    [m EXCEPT !.cells = [i \in DOMAIN m.cells |->
                            IF m.cells[i].type = "state"
                            THEN [m.cells[i] EXCEPT !.stateChanges = <<>>]
                            ELSE m.cells[i]]]

\* Host h rendered and called the setter of a live cell of the other Host
CalledPeer(h, L) ==
    /\ Cardinality(DOMAIN mem) = 2
    /\ SetterCalls(L, Peer(h)) # <<>>
    /\ setPeer.h = Peer(h)
    /\ setPeer.live

PeerRenderStep ==
    LET h == last'.h
        p == Peer(h)
        calls == SetterCalls(last'.log, p)
    IN  CalledPeer(h, last'.log) =>
            /\ WithoutQueues(mem'[p]) = WithoutQueues(mem[p])
            /\ mem'[p].cells[setPeer.pos].stateChanges =
                   mem[p].cells[setPeer.pos].stateChanges \o
                       [i \in 1..Len(calls) |-> PeerChange]
            /\ Queued(micro', p) # {}
            /\ \A j \in 1..Len(last'.out) : last'.out[j].type # "error"

PeerMicrotaskStep ==
    LET h == last'.h
        out == last'.out
    IN  (ChangedCells(h) # {} /\ Thrown(last'.log) = <<>> /\ ~hung') =>
            /\ out # <<>>
            /\ IsFinalEvent(out[Len(out)])
            /\ variant = "agent" => out[Len(out)].async

C24_HostsIndependent ==
    [][/\ (HandlerStep /\ last'.op = "render") => PeerRenderStep
       /\ (HandlerStep /\ last'.op = "microtask") => PeerMicrotaskStep]_vars

\* B was rendered, A's render called B's setter, and the microtask of B gave
\* B's listener the new greeting
C24_Witness ==
    /\ Len(history) >= 3
    /\ last.op = "microtask"
    /\ last.h = "B"
    /\ history[Len(history) - 1].op = "render"
    /\ history[Len(history) - 1].h = "A"
    /\ SetterCalls(last.log, "B") = <<>>
    /\ last.out # <<>>
    /\ Entries(last.log, "observe")[1].v = "Jack Doe"

(***************************************************************************)
(* C25: a cleanup returned by an effect invocation is invoked at most      *)
(* once.  In every handler, a cleanup invoked for a slot is either the one *)
(* the cell held when the handler began, invoked for the first time, or    *)
(* the one returned by an invocation of the slot's effect made since the   *)
(* slot's previous cleanup; and no cell holds, when the handler ends, a    *)
(* cleanup that was invoked.                                               *)
(***************************************************************************)
\* the invocations of slot s's effect and of its cleanups before entry j
SlotHistory(L, s, j) ==
    {k \in 1..(j - 1) : L[k].k \in {"cleanup", "effect"} /\ L[k].i = s}

\* the cell of slot s holds a cleanup in Memory m
HoldsCleanup(m, s) ==
    /\ s <= Len(m.cells)
    /\ m.cells[s].type = "effect"
    /\ m.cells[s].dispose # NoDispose

\* the cleanup invoked at entry j had not been invoked before
FirstInvocation(L, h, j) ==
    IF SlotHistory(L, L[j].i, j) = {}
    THEN HoldsCleanup(mem[h], L[j].i)
    ELSE L[Latest(SlotHistory(L, L[j].i, j))].k = "effect"

\* a cleanup held at the end was returned by the slot's latest effect
\* invocation or was held, and not invoked, from the beginning
HeldNotInvoked(L, h, s) ==
    IF SlotHistory(L, s, Len(L) + 1) = {}
    THEN HoldsCleanup(mem[h], s) /\ mem'[h].cells[s].dispose = mem[h].cells[s].dispose
    ELSE L[Latest(SlotHistory(L, s, Len(L) + 1))].k = "effect"

CleanupsOnce(L, h) ==
    /\ \A j \in 1..Len(L) : L[j].k = "cleanup" => FirstInvocation(L, h, j)
    /\ \A s \in 1..Len(mem'[h].cells) :
           HoldsCleanup(mem'[h], s) => HeldNotInvoked(L, h, s)

C25_CleanupAtMostOnce ==
    [][HandlerStep => CleanupsOnce(last'.log, last'.h)]_vars

(***************************************************************************)
(* C26: a final value event is the last thing its render procedure does,   *)
(* and when it is emitted no state cell has a queued update, no effect     *)
(* cell is marked outdated, the event carries the value the most recent    *)
(* agent invocation returned, and every state cell holds the state that    *)
(* invocation observed.                                                    *)
(***************************************************************************)
FinalEvents == {k \in 1..Len(last.out) : IsFinalEvent(last.out[k])}

EventValue(e) == IF e.type = "rendering" THEN e.result ELSE e.value

OutdatedCells(h) ==
    {i \in 1..Len(mem[h].cells) :
        mem[h].cells[i].type = "effect" /\ mem[h].cells[i].outdated}

StateCells(h) == {i \in 1..Len(mem[h].cells) : mem[h].cells[i].type = "state"}

\* the observations of the most recent agent invocation
LatestObservations(L) ==
    {j \in 1..Len(L) : L[j].k = "observe" /\ j > Latest({i \in 1..Len(L) : L[i].k = "invoke"})}

ObservedCurrent(L, h) ==
    /\ \A j \in LatestObservations(L) :
           /\ L[j].i \in StateCells(h)
           /\ L[j].v = mem[h].cells[L[j].i].state
    /\ \A i \in StateCells(h) : \E j \in LatestObservations(L) : L[j].i = i

C26_FinalEventIsSettled ==
    \A k \in FinalEvents :
        /\ k = Len(last.out)
        /\ last.log[Len(last.log)].k = "emit"
        /\ PendingCells(last.h) = {}
        /\ OutdatedCells(last.h) = {}
        /\ Entries(last.log, "return") # <<>>
        /\ EventValue(last.out[k]) = last.log[LastReturn(last.log)].v
        /\ LastReturn(last.log) > Latest({i \in 1..Len(last.log) : last.log[i].k = "invoke"})
        /\ ObservedCurrent(last.log, last.h)

(***************************************************************************)
(* C27: render is called while an update made outside any render is        *)
(* queued and its microtask has not run.  The first agent invocation       *)
(* observes the old state; when it returns, its value is reported as       *)
(* superseded (an intermediate event; an interim result in the hook        *)
(* version), the queue is applied in this render, whose next invocation    *)
(* observes the folded state, and every event of the render carries        *)
(* async=false.  The value events of one handler all carry the same async  *)
(* flag, and a microtask that runs right after a render applies nothing,   *)
(* invokes nothing and emits nothing.                                      *)
(***************************************************************************)
FirstOf(L, k) == CHOOSE j \in 1..Len(L) : L[j].k = k /\ \A i \in 1..(j - 1) : L[i].k # k

\* the first invocation returned
FirstReturned(L) ==
    /\ Entries(L, "return") # <<>>
    /\ \A j \in 1..FirstOf(L, "return") : L[j].k # "throw"

\* the first value the render produced was reported as superseded
ReportedSuperseded(out, v) ==
    IF variant = "agent"
    THEN out # <<>> /\ out[1] = ValueEvent(v, FALSE, TRUE)
    ELSE \A j \in 1..Len(out) :
             out[j].type = "rendering" =>
                 /\ out[j].interimResults # <<>>
                 /\ out[j].interimResults[Len(out[j].interimResults)] = v

\* the render of Host h whose log is L found the cells of `pending` queued
RenderOverPending(L, h, out, pending) ==
    LET observed == Entries(L, "observe")
    IN  /\ observed # <<>> =>
              /\ observed[1].i \in pending
              /\ observed[1].v = mem[h].cells[observed[1].i].state
        /\ FirstReturned(L) =>
              /\ ReportedSuperseded(out, L[FirstOf(L, "return")].v)
              /\ L[FirstOf(L, "return") + 1].k = "apply"
              /\ L[FirstOf(L, "return") + 1].v = "changed"
              /\ Len(observed) >= 2 =>
                     observed[2].v = FoldedState(h, observed[1].i)
        /\ variant = "agent" =>
              \A j \in 1..Len(out) :
                  out[j].type \in {"value", "error"} /\ ~out[j].async

SameAsyncFlag(out) ==
    \A i, j \in 1..Len(out) :
        (out[i].type = "value" /\ out[j].type = "value") => out[i].async = out[j].async

\* a microtask that runs right after a render
IdleMicrotask ==
    (history # <<>> /\ history[Len(history)].op = "render") =>
        /\ last'.out = <<>>
        /\ last'.threw = None
        /\ Entries(last'.log, "invoke") = <<>>
        /\ \A j \in 1..Len(last'.log) :
               last'.log[j].k = "apply" /\ last'.log[j].v = "same"

\* the claim as stated: for every queued update
C27_PendingUpdateAtRender ==
    [][(HandlerStep /\ last'.op = "render" /\ PendingCells(last'.h) # {}) =>
           RenderOverPending(last'.log, last'.h, last'.out, PendingCells(last'.h))]_vars

\* for a queued update that changes the state
C27_ChangingUpdateAtRender ==
    [][/\ (HandlerStep /\ last'.op = "render" /\ ChangedCells(last'.h) # {}) =>
              RenderOverPending(last'.log, last'.h, last'.out, ChangedCells(last'.h))
       /\ HandlerStep => SameAsyncFlag(last'.out)
       /\ (HandlerStep /\ last'.op = "microtask") => IdleMicrotask]_vars

\* a timer queued 'Johnny Doe', render was called before the microtask ran
\* and reported the old greeting as superseded, then the microtask ran
C27_Witness ==
    /\ variant = "agent"
    /\ Len(history) >= 3
    /\ last.op = "microtask"
    /\ last.out = <<>>
    /\ history[Len(history) - 1].op = "render"
    /\ history[Len(history) - 2].op = "timeout"
    /\ Len(history[Len(history) - 1].out) = 2
    /\ history[Len(history) - 1].out[1].type = "value"
    /\ history[Len(history) - 1].out[1].intermediate
    /\ ~history[Len(history) - 1].out[2].async

====
